---------------------------- MODULE Spec2Model ----------------------------
(***************************************************************************)
(* Handle lifecycle, mount state machine and open-mode / error translation *)
(* of the EmbeddedFS adapters (LittleFSImpl, FatFSImpl).                   *)
(*                                                                         *)
(* The two backend libraries (littlefs, FatFs) are collaborators of the    *)
(* adapters.  A volume is either "unmodelled" (every backend call may      *)
(* return any of a sample of native codes: the adapters are checked        *)
(* against an arbitrary backend) or it is a small reference volume with    *)
(* files and contents (a healthy medium).                                  *)
(***************************************************************************)
EXTENDS Integers, Sequences, FiniteSets, TLC

VARIABLES mounted_, vol, fh, dh, last

vars == <<mounted_, vol, fh, dh, last>>

(***************************************************************************)
(* Bounds of the model.                                                    *)
(***************************************************************************)
\* longest file content / longest read or write request, in bytes
MaxLen == 2

(***************************************************************************)
(* Adapter instances.  L1: a flash-log adapter with a configuration;       *)
(* L0: a flash-log adapter constructed with a null configuration;          *)
(* F1, F2: FAT adapters.  The name of an instance is its `this` pointer.   *)
(***************************************************************************)
LfsAdapters == {"L1", "L0"}
FatAdapters == {"F1", "F2"}
Adapters == LfsAdapters \cup FatAdapters
NULL == "nullptr"

\* LittleFSImpl::config_ as stored by the constructor
config_(a) == IF a = "L0" THEN NULL ELSE "cfg"

FileHandles == {"fh1"}
DirHandles == {"dh1"}
Paths == {"/a.txt"}
Bytes == {0, 1}

(***************************************************************************)
(* enum class OpenMode : uint8_t                                           *)
(***************************************************************************)
READ == 1
WRITE == 2
CREATE == 4
EXCL == 8
TRUNC == 16
APPEND == 32

(***************************************************************************)
(* Native status codes of the flash-log backend (int) and its open flags.  *)
(***************************************************************************)
LFS_ERR_OK == 0
LFS_ERR_IO == -5
LFS_ERR_CORRUPT == -84
LFS_ERR_NOENT == -2
LFS_ERR_EXIST == -17
LFS_ERR_NOTDIR == -20
LFS_ERR_ISDIR == -21
LFS_ERR_NOTEMPTY == -39
LFS_ERR_BADF == -9
LFS_ERR_FBIG == -27
LFS_ERR_NOSPC == -28
LFS_ERR_NOMEM == -12
LFS_ERR_INVAL == -22
\* a native code the translation table does not list
LFS_ERR_NAMETOOLONG == -36

LFS_O_RDONLY == 1
LFS_O_WRONLY == 2
LFS_O_RDWR == 3
LFS_O_CREAT == 256
LFS_O_EXCL == 512
LFS_O_TRUNC == 1024
LFS_O_APPEND == 2048

(***************************************************************************)
(* Native status codes of the FAT backend (enum FRESULT) and its modes.    *)
(***************************************************************************)
FR_OK == 0
FR_DISK_ERR == 1
FR_INT_ERR == 2
FR_NOT_READY == 3
FR_NO_FILE == 4
FR_NO_PATH == 5
FR_INVALID_NAME == 6
FR_DENIED == 7
FR_EXIST == 8
FR_INVALID_OBJECT == 9
FR_WRITE_PROTECTED == 10
FR_INVALID_DRIVE == 11
FR_NOT_ENABLED == 12
FR_NO_FILESYSTEM == 13
FR_MKFS_ABORTED == 14
FR_TIMEOUT == 15
FR_LOCKED == 16
FR_NOT_ENOUGH_CORE == 17
FR_TOO_MANY_OPEN_FILES == 18
FR_INVALID_PARAMETER == 19

FA_READ == 1
FA_WRITE == 2
FA_OPEN_EXISTING == 0
FA_CREATE_NEW == 4
FA_CREATE_ALWAYS == 8
FA_OPEN_APPEND == 48

(***************************************************************************)
(* Bit arithmetic on naturals.                                             *)
(***************************************************************************)
RECURSIVE BitAnd(_, _)
BitAnd(x, y) ==
    IF x = 0 \/ y = 0 THEN 0
    ELSE (IF x % 2 = 1 /\ y % 2 = 1 THEN 1 ELSE 0) + 2 * BitAnd(x \div 2, y \div 2)

RECURSIVE BitOr(_, _)
BitOr(x, y) ==
    IF x = 0 THEN y
    ELSE IF y = 0 THEN x
    ELSE (IF x % 2 = 1 \/ y % 2 = 1 THEN 1 ELSE 0) + 2 * BitOr(x \div 2, y \div 2)

\* x & ~y
BitClear(x, y) == x - BitAnd(x, y)

\* static_cast<uint8_t>(x)
U8(x) == x % 256

\* faulty variant: every code that is not negative counts as success
convert_lfs_error_success_if_not_negative(lfs_error) ==
    CASE lfs_error >= LFS_ERR_OK -> "OK"
      [] lfs_error = LFS_ERR_IO -> "ERROR_IO"
      [] lfs_error = LFS_ERR_CORRUPT -> "ERROR_CORRUPT"
      [] lfs_error = LFS_ERR_NOENT -> "ERROR_NO_ENT"
      [] lfs_error = LFS_ERR_EXIST -> "ERROR_EXIST"
      [] lfs_error = LFS_ERR_NOTDIR -> "ERROR_NOT_DIR"
      [] lfs_error = LFS_ERR_ISDIR -> "ERROR_IS_DIR"
      [] lfs_error = LFS_ERR_NOTEMPTY -> "ERROR_NO_EMPTY"
      [] lfs_error = LFS_ERR_BADF -> "ERROR_BAD_FILE"
      [] lfs_error = LFS_ERR_FBIG -> "ERROR_FB_BIG"
      [] lfs_error = LFS_ERR_NOSPC -> "ERROR_NO_SPC"
      [] lfs_error = LFS_ERR_NOMEM -> "ERROR_NO_MEM"
      [] lfs_error = LFS_ERR_INVAL -> "ERROR_INVALID"
      [] OTHER -> "ERROR_IO"

(***************************************************************************)
(* LittleFSImpl::convert_lfs_error                                         *)
(***************************************************************************)
convert_lfs_error(lfs_error) ==
    CASE lfs_error = LFS_ERR_OK -> "OK"
      [] lfs_error = LFS_ERR_IO -> "ERROR_IO"
      [] lfs_error = LFS_ERR_CORRUPT -> "ERROR_CORRUPT"
      [] lfs_error = LFS_ERR_NOENT -> "ERROR_NO_ENT"
      [] lfs_error = LFS_ERR_EXIST -> "ERROR_EXIST"
      [] lfs_error = LFS_ERR_NOTDIR -> "ERROR_NOT_DIR"
      [] lfs_error = LFS_ERR_ISDIR -> "ERROR_IS_DIR"
      [] lfs_error = LFS_ERR_NOTEMPTY -> "ERROR_NO_EMPTY"
      [] lfs_error = LFS_ERR_BADF -> "ERROR_BAD_FILE"
      [] lfs_error = LFS_ERR_FBIG -> "ERROR_FB_BIG"
      [] lfs_error = LFS_ERR_NOSPC -> "ERROR_NO_SPC"
      [] lfs_error = LFS_ERR_NOMEM -> "ERROR_NO_MEM"
      [] lfs_error = LFS_ERR_INVAL -> "ERROR_INVALID"
      [] OTHER -> "ERROR_IO"

(***************************************************************************)
(* FatFSImpl::convert_fatfs_error                                          *)
(***************************************************************************)
convert_fatfs_error(fresult) ==
    CASE fresult = FR_OK -> "OK"
      [] fresult = FR_DISK_ERR -> "ERROR_IO"
      [] fresult = FR_INT_ERR -> "ERROR_CORRUPT"
      [] fresult = FR_NOT_READY -> "ERROR_IO"
      [] fresult = FR_NO_FILE -> "ERROR_NO_ENT"
      [] fresult = FR_NO_PATH -> "ERROR_NO_ENT"
      [] fresult = FR_INVALID_NAME -> "ERROR_INVALID"
      [] fresult = FR_DENIED -> "ERROR_INVALID"
      [] fresult = FR_EXIST -> "ERROR_EXIST"
      [] fresult = FR_INVALID_OBJECT -> "ERROR_BAD_FILE"
      [] fresult = FR_WRITE_PROTECTED -> "ERROR_INVALID"
      [] fresult = FR_INVALID_DRIVE -> "ERROR_NOT_MOUNTED"
      [] fresult = FR_NOT_ENABLED -> "ERROR_NOT_MOUNTED"
      [] fresult = FR_NO_FILESYSTEM -> "ERROR_CORRUPT"
      [] fresult = FR_MKFS_ABORTED -> "ERROR_IO"
      [] fresult = FR_TIMEOUT -> "ERROR_IO"
      [] fresult = FR_LOCKED -> "ERROR_INVALID"
      [] fresult = FR_NOT_ENOUGH_CORE -> "ERROR_NO_MEM"
      [] fresult = FR_TOO_MANY_OPEN_FILES -> "ERROR_NO_MEM"
      [] fresult = FR_INVALID_PARAMETER -> "ERROR_INVALID"
      [] OTHER -> "ERROR_IO"

\* faulty variant: WRITE alone decides the access flag, READ|WRITE gives write-only
lfs_convert_open_mode_write_wins(mode) ==
    LET mode_bits == U8(mode)
        read_flag == BitAnd(mode_bits, READ) # 0
        write_flag == BitAnd(mode_bits, WRITE) # 0
        create_flag == BitAnd(mode_bits, CREATE) # 0
        trunc_flag == BitAnd(mode_bits, TRUNC) # 0
        append_flag == BitAnd(mode_bits, APPEND) # 0
        excl_flag == BitAnd(mode_bits, EXCL) # 0
        f2 == IF write_flag THEN LFS_O_WRONLY
              ELSE IF read_flag THEN LFS_O_RDONLY ELSE 0
        f3 == IF create_flag
              THEN IF excl_flag
                   THEN BitOr(BitOr(f2, LFS_O_CREAT), LFS_O_EXCL)
                   ELSE BitOr(f2, LFS_O_CREAT)
              ELSE f2
        f4 == IF trunc_flag THEN BitOr(f3, LFS_O_TRUNC) ELSE f3
        lfs_flags == IF append_flag THEN BitOr(f4, LFS_O_APPEND) ELSE f4
    IN  U8(lfs_flags)

(***************************************************************************)
(* LittleFSImpl::convert_open_mode.  The flag word is built in an int and  *)
(* returned through the function's uint8_t return type.                    *)
(***************************************************************************)
lfs_convert_open_mode(mode) ==
    LET mode_bits == U8(mode)
        read_flag == BitAnd(mode_bits, READ) # 0
        write_flag == BitAnd(mode_bits, WRITE) # 0
        create_flag == BitAnd(mode_bits, CREATE) # 0
        trunc_flag == BitAnd(mode_bits, TRUNC) # 0
        append_flag == BitAnd(mode_bits, APPEND) # 0
        excl_flag == BitAnd(mode_bits, EXCL) # 0
        f1 == IF read_flag THEN BitOr(0, LFS_O_RDONLY) ELSE 0
        f2 == IF write_flag
              THEN IF read_flag
                   THEN BitOr(BitClear(f1, LFS_O_RDONLY), LFS_O_RDWR)
                   ELSE BitOr(f1, LFS_O_WRONLY)
              ELSE f1
        f3 == IF create_flag
              THEN IF excl_flag
                   THEN BitOr(BitOr(f2, LFS_O_CREAT), LFS_O_EXCL)
                   ELSE BitOr(f2, LFS_O_CREAT)
              ELSE f2
        f4 == IF trunc_flag THEN BitOr(f3, LFS_O_TRUNC) ELSE f3
        lfs_flags == IF append_flag THEN BitOr(f4, LFS_O_APPEND) ELSE f4
    IN  U8(lfs_flags)

\* faulty variant: a mode with neither READ nor WRITE is opened for reading
fat_convert_open_mode_reads_by_default(mode) ==
    LET mode_bits == U8(mode)
        read_flag == BitAnd(mode_bits, READ) # 0
        write_flag == BitAnd(mode_bits, WRITE) # 0
        create_flag == BitAnd(mode_bits, CREATE) # 0
        append_flag == BitAnd(mode_bits, APPEND) # 0
        excl_flag == BitAnd(mode_bits, EXCL) # 0
        m1 == IF write_flag /\ ~read_flag THEN FA_WRITE
              ELSE IF read_flag /\ write_flag THEN BitOr(FA_READ, FA_WRITE)
              ELSE FA_READ
        m2 == IF create_flag
              THEN IF excl_flag THEN BitOr(m1, FA_CREATE_NEW)
                   ELSE BitOr(m1, FA_CREATE_ALWAYS)
              ELSE IF write_flag THEN BitOr(m1, FA_OPEN_EXISTING)
              ELSE m1
        fat_mode == IF append_flag THEN BitOr(m2, FA_OPEN_APPEND) ELSE m2
    IN  U8(fat_mode)

(***************************************************************************)
(* FatFSImpl::convert_open_mode.  Line 424 of the source spells the WRITE  *)
(* enumerator in lower case; the enumeration has one enumerator of that    *)
(* name up to case, WRITE.                                                 *)
(***************************************************************************)
fat_convert_open_mode(mode) ==
    LET mode_bits == U8(mode)
        read_flag == BitAnd(mode_bits, READ) # 0
        write_flag == BitAnd(mode_bits, WRITE) # 0
        create_flag == BitAnd(mode_bits, CREATE) # 0
        append_flag == BitAnd(mode_bits, APPEND) # 0
        excl_flag == BitAnd(mode_bits, EXCL) # 0
        m1 == IF read_flag /\ ~write_flag THEN FA_READ
              ELSE IF write_flag /\ ~read_flag THEN FA_WRITE
              ELSE IF read_flag /\ write_flag THEN BitOr(FA_READ, FA_WRITE)
              ELSE 0
        m2 == IF create_flag
              THEN IF excl_flag THEN BitOr(m1, FA_CREATE_NEW)
                   ELSE BitOr(m1, FA_CREATE_ALWAYS)
              ELSE IF write_flag THEN BitOr(m1, FA_OPEN_EXISTING)
              ELSE m1
        fat_mode == IF append_flag THEN BitOr(m2, FA_OPEN_APPEND) ELSE m2
    IN  U8(fat_mode)

(***************************************************************************)
(* State shapes.                                                           *)
(*   mounted_[a]  the adapter's mounted_ flag                              *)
(*   vol[a]       the medium behind adapter a                              *)
(*   fh[h], dh[h] FileHandle / DirHandle objects of the caller             *)
(*   last         the most recent call: its arguments, the handle and the  *)
(*                mounted flag as they were before it, its result, its     *)
(*                outputs and the backend calls it issued, in order        *)
(***************************************************************************)
\* the native object of a handle (lfs_file_t / FIL, lfs_dir_t / DIR) before any
\* backend call has filled it
NoNative == [path |-> "", pos |-> 0, acc |-> 0]

\* FileHandle() / DirHandle()
ClosedHandle == [is_open |-> FALSE, fs_impl |-> NULL, nat |-> NoNative]

NoFile == [exists |-> FALSE, isdir |-> FALSE, data |-> <<>>]
NewFile == [exists |-> TRUE, isdir |-> FALSE, data |-> <<>>]
NewDir == [exists |-> TRUE, isdir |-> TRUE, data |-> <<>>]
EmptyFiles == [p \in Paths |-> NoFile]
Unmodelled == [state |-> "unmodelled", files |-> EmptyFiles]
FreshVolume == [state |-> "ok", files |-> EmptyFiles]
BlankMedium == [state |-> "corrupt", files |-> EmptyFiles]

NoArg == [path |-> "", mode |-> 0, n |-> 0, data |-> <<>>]
\* n = -1: the output argument was not written by the call
NoOut == [n |-> -1, data |-> <<>>, name |-> "(unwritten)", dir |-> FALSE, mtime |-> -1]

Call(fn, arg, res) == [fn |-> fn, arg |-> arg, res |-> res]

HandleOf(h) ==
    IF h \in FileHandles THEN fh[h]
    ELSE IF h \in DirHandles THEN dh[h]
    ELSE ClosedHandle

\* the call returns `ret` after issuing `calls`
Done(op, a, h, arg, ret, calls, out) ==
    last' = [op |-> op, a |-> a, h |-> h, pre |-> HandleOf(h),
             preMounted |-> mounted_[a], arg |-> arg, ret |-> ret,
             calls |-> calls, out |-> out]

(***************************************************************************)
(* The backends at their interface.  On an unmodelled medium a call may    *)
(* return any code of the sample; on a reference volume it returns what a  *)
(* healthy medium returns.                                                 *)
(***************************************************************************)
LfsSample == {LFS_ERR_OK, LFS_ERR_CORRUPT, LFS_ERR_BADF}
FatSample == {FR_OK, FR_DISK_ERR, FR_INVALID_OBJECT}

\* int lfs_mount(lfs_t*, const lfs_config*)
lfs_mount(v) ==
    IF v.state = "unmodelled" THEN LfsSample
    ELSE IF v.state = "ok" THEN {LFS_ERR_OK}
    ELSE {LFS_ERR_CORRUPT}

\* int lfs_format(lfs_t*, const lfs_config*): result and the medium afterwards
lfs_format(v) ==
    IF v.state = "unmodelled" THEN {[res |-> r, vol |-> v] : r \in LfsSample}
    ELSE {[res |-> LFS_ERR_OK, vol |-> FreshVolume]}

\* int lfs_unmount(lfs_t*)
lfs_unmount(v) ==
    IF v.state = "unmodelled" THEN LfsSample ELSE {LFS_ERR_OK}

\* FRESULT f_mount(FATFS*, path, 1)
f_mount(v) ==
    IF v.state = "unmodelled" THEN FatSample
    ELSE IF v.state = "ok" THEN {FR_OK}
    ELSE {FR_NO_FILESYSTEM}

\* FRESULT f_mount(nullptr, path, 0)
f_unmount(v) ==
    IF v.state = "unmodelled" THEN FatSample ELSE {FR_OK}

\* faulty variant: any failed mount is answered by formatting
FormatsOn_any_failure(res) == res # LFS_ERR_OK

\* the one mount failure that is answered by formatting: res == LFS_ERR_CORRUPT
FormatsOn(res) == res = LFS_ERR_CORRUPT

(***************************************************************************)
(* LittleFSImpl::mount                                                     *)
(***************************************************************************)
\* faulty variant: mount does not test the configuration pointer
LittleFSImpl_mount_without_config_test(a) ==
    /\ a \in LfsAdapters
    /\ UNCHANGED <<fh, dh>>
    /\ IF mounted_[a]
       THEN /\ Done("mount", a, "none", NoArg, "OK", <<>>, NoOut)
            /\ UNCHANGED <<mounted_, vol>>
       ELSE \E r1 \in lfs_mount(vol[a]) :
            LET c1 == Call("lfs_mount", 0, r1) IN
            IF r1 = LFS_ERR_OK
            THEN /\ mounted_' = [mounted_ EXCEPT ![a] = TRUE]
                 /\ Done("mount", a, "none", NoArg, "OK", <<c1>>, NoOut)
                 /\ UNCHANGED vol
            ELSE IF FormatsOn(r1)
            THEN \E f \in lfs_format(vol[a]) :
                 LET c2 == Call("lfs_format", 0, f.res) IN
                 /\ vol' = [vol EXCEPT ![a] = f.vol]
                 /\ IF f.res = LFS_ERR_OK
                    THEN \E r3 \in lfs_mount(f.vol) :
                         LET c3 == Call("lfs_mount", 0, r3) IN
                         IF r3 = LFS_ERR_OK
                         THEN /\ mounted_' = [mounted_ EXCEPT ![a] = TRUE]
                              /\ Done("mount", a, "none", NoArg, "OK",
                                      <<c1, c2, c3>>, NoOut)
                         ELSE /\ Done("mount", a, "none", NoArg,
                                      convert_lfs_error(r3), <<c1, c2, c3>>, NoOut)
                              /\ UNCHANGED mounted_
                    ELSE /\ Done("mount", a, "none", NoArg,
                                 convert_lfs_error(f.res), <<c1, c2>>, NoOut)
                         /\ UNCHANGED mounted_
            ELSE /\ Done("mount", a, "none", NoArg, convert_lfs_error(r1),
                         <<c1>>, NoOut)
                 /\ UNCHANGED <<mounted_, vol>>

LittleFSImpl_mount(a) ==
    /\ a \in LfsAdapters
    /\ UNCHANGED <<fh, dh>>
    /\ IF mounted_[a]
       THEN /\ Done("mount", a, "none", NoArg, "OK", <<>>, NoOut)
            /\ UNCHANGED <<mounted_, vol>>
       ELSE IF config_(a) = NULL
       THEN /\ Done("mount", a, "none", NoArg, "ERROR_INVALID", <<>>, NoOut)
            /\ UNCHANGED <<mounted_, vol>>
       ELSE \E r1 \in lfs_mount(vol[a]) :
            LET c1 == Call("lfs_mount", 0, r1) IN
            IF r1 = LFS_ERR_OK
            THEN /\ mounted_' = [mounted_ EXCEPT ![a] = TRUE]
                 /\ Done("mount", a, "none", NoArg, "OK", <<c1>>, NoOut)
                 /\ UNCHANGED vol
            ELSE IF FormatsOn(r1)
            THEN \E f \in lfs_format(vol[a]) :
                 LET c2 == Call("lfs_format", 0, f.res) IN
                 /\ vol' = [vol EXCEPT ![a] = f.vol]
                 /\ IF f.res = LFS_ERR_OK
                    THEN \E r3 \in lfs_mount(f.vol) :
                         LET c3 == Call("lfs_mount", 0, r3) IN
                         IF r3 = LFS_ERR_OK
                         THEN /\ mounted_' = [mounted_ EXCEPT ![a] = TRUE]
                              /\ Done("mount", a, "none", NoArg, "OK",
                                      <<c1, c2, c3>>, NoOut)
                         ELSE /\ Done("mount", a, "none", NoArg,
                                      convert_lfs_error(r3), <<c1, c2, c3>>, NoOut)
                              /\ UNCHANGED mounted_
                    ELSE /\ Done("mount", a, "none", NoArg,
                                 convert_lfs_error(f.res), <<c1, c2>>, NoOut)
                         /\ UNCHANGED mounted_
            ELSE /\ Done("mount", a, "none", NoArg, convert_lfs_error(r1),
                         <<c1>>, NoOut)
                 /\ UNCHANGED <<mounted_, vol>>

(***************************************************************************)
(* LittleFSImpl::unmount                                                   *)
(***************************************************************************)
\* faulty variant: unmount keeps the adapter mounted when the backend fails
LittleFSImpl_unmount_keeps_on_failure(a) ==
    /\ a \in LfsAdapters
    /\ UNCHANGED <<vol, fh, dh>>
    /\ IF ~mounted_[a]
       THEN /\ Done("unmount", a, "none", NoArg, "OK", <<>>, NoOut)
            /\ UNCHANGED mounted_
       ELSE \E res \in lfs_unmount(vol[a]) :
            /\ mounted_' = [mounted_ EXCEPT ![a] = (res # LFS_ERR_OK)]
            /\ Done("unmount", a, "none", NoArg, convert_lfs_error(res),
                    <<Call("lfs_unmount", 0, res)>>, NoOut)

LittleFSImpl_unmount(a) ==
    /\ a \in LfsAdapters
    /\ UNCHANGED <<vol, fh, dh>>
    /\ IF ~mounted_[a]
       THEN /\ Done("unmount", a, "none", NoArg, "OK", <<>>, NoOut)
            /\ UNCHANGED mounted_
       ELSE \E res \in lfs_unmount(vol[a]) :
            /\ mounted_' = [mounted_ EXCEPT ![a] = FALSE]
            /\ Done("unmount", a, "none", NoArg, convert_lfs_error(res),
                    <<Call("lfs_unmount", 0, res)>>, NoOut)

(***************************************************************************)
(* FatFSImpl::mount                                                        *)
(***************************************************************************)
\* faulty variant: a failed mount still marks the adapter mounted
FatFSImpl_mount_marks_on_failure(a) ==
    /\ a \in FatAdapters
    /\ UNCHANGED <<vol, fh, dh>>
    /\ IF mounted_[a]
       THEN /\ Done("mount", a, "none", NoArg, "OK", <<>>, NoOut)
            /\ UNCHANGED mounted_
       ELSE \E res \in f_mount(vol[a]) :
            IF res = FR_OK
            THEN /\ mounted_' = [mounted_ EXCEPT ![a] = TRUE]
                 /\ Done("mount", a, "none", NoArg, "OK",
                         <<Call("f_mount", 1, res)>>, NoOut)
            ELSE /\ Done("mount", a, "none", NoArg, convert_fatfs_error(res),
                         <<Call("f_mount", 1, res)>>, NoOut)
                 /\ mounted_' = [mounted_ EXCEPT ![a] = TRUE]

FatFSImpl_mount(a) ==
    /\ a \in FatAdapters
    /\ UNCHANGED <<vol, fh, dh>>
    /\ IF mounted_[a]
       THEN /\ Done("mount", a, "none", NoArg, "OK", <<>>, NoOut)
            /\ UNCHANGED mounted_
       ELSE \E res \in f_mount(vol[a]) :
            IF res = FR_OK
            THEN /\ mounted_' = [mounted_ EXCEPT ![a] = TRUE]
                 /\ Done("mount", a, "none", NoArg, "OK",
                         <<Call("f_mount", 1, res)>>, NoOut)
            ELSE /\ Done("mount", a, "none", NoArg, convert_fatfs_error(res),
                         <<Call("f_mount", 1, res)>>, NoOut)
                 /\ UNCHANGED mounted_

\* faulty variant: unmount calls the backend whatever the mounted flag says
FatFSImpl_unmount_unguarded(a) ==
    /\ a \in FatAdapters
    /\ UNCHANGED <<vol, fh, dh>>
    /\ \E res \in f_unmount(vol[a]) :
       /\ mounted_' = [mounted_ EXCEPT ![a] = FALSE]
       /\ Done("unmount", a, "none", NoArg, convert_fatfs_error(res),
               <<Call("f_mount", 0, res)>>, NoOut)

(***************************************************************************)
(* FatFSImpl::unmount                                                      *)
(***************************************************************************)
FatFSImpl_unmount(a) ==
    /\ a \in FatAdapters
    /\ UNCHANGED <<vol, fh, dh>>
    /\ IF ~mounted_[a]
       THEN /\ Done("unmount", a, "none", NoArg, "OK", <<>>, NoOut)
            /\ UNCHANGED mounted_
       ELSE \E res \in f_unmount(vol[a]) :
            /\ mounted_' = [mounted_ EXCEPT ![a] = FALSE]
            /\ Done("unmount", a, "none", NoArg, convert_fatfs_error(res),
                    <<Call("f_mount", 0, res)>>, NoOut)

(***************************************************************************)
(* File calls of the backends.  A call made while the adapter is not       *)
(* mounted, or on an unmodelled medium, may return any code of the sample. *)
(* An outcome is the native result, the bytes moved, the native object and *)
(* the files of the medium afterwards.                                     *)
(***************************************************************************)
Data == UNION {[1..n -> Bytes] : n \in 0..MaxLen}

Min(x, y) == IF x <= y THEN x ELSE y
Max(x, y) == IF x >= y THEN x ELSE y

Arbitrary(a) == vol[a].state # "ok" \/ ~mounted_[a]

Outcome(res, data, nat, files) ==
    [res |-> res, data |-> data, nat |-> nat, files |-> files]

\* content `old` after `d` is stored at offset `pos` (a gap reads as zeros)
WriteAt(old, pos, d) ==
    [i \in 1..Max(Len(old), pos + Len(d)) |->
        IF i > pos /\ i <= pos + Len(d) THEN d[i - pos]
        ELSE IF i <= Len(old) THEN old[i] ELSE 0]

\* content `old` cut or zero-extended to `size` bytes
Resize(old, size) ==
    [i \in 1..size |-> IF i <= Len(old) THEN old[i] ELSE 0]

\* the bytes of `old` from offset `pos`, at most `size` of them
ReadAt(old, pos, size) ==
    IF pos >= Len(old) THEN <<>>
    ELSE SubSeq(old, pos + 1, Min(Len(old), pos + size))

\* int lfs_file_open(lfs_t*, lfs_file_t*, path, int flags)
lfs_file_open(a, fs, nat, path, flags) ==
    LET f == fs[path]
        opened == [path |-> path, pos |-> 0, acc |-> flags]
    IN  IF Arbitrary(a)
        THEN {Outcome(r, <<>>, IF r = LFS_ERR_OK THEN opened ELSE nat, fs) :
                r \in LfsSample}
        ELSE IF ~f.exists
        THEN IF BitAnd(flags, LFS_O_CREAT) # 0
             THEN {Outcome(LFS_ERR_OK, <<>>, opened,
                           [fs EXCEPT ![path] = NewFile])}
             ELSE {Outcome(LFS_ERR_NOENT, <<>>, nat, fs)}
        ELSE IF BitAnd(flags, LFS_O_CREAT) # 0 /\ BitAnd(flags, LFS_O_EXCL) # 0
        THEN {Outcome(LFS_ERR_EXIST, <<>>, nat, fs)}
        ELSE IF f.isdir
        THEN {Outcome(LFS_ERR_ISDIR, <<>>, nat, fs)}
        ELSE IF BitAnd(flags, LFS_O_TRUNC) # 0
        THEN {Outcome(LFS_ERR_OK, <<>>, opened,
                      [fs EXCEPT ![path].data = <<>>])}
        ELSE {Outcome(LFS_ERR_OK, <<>>, opened, fs)}

\* int lfs_file_close(lfs_t*, lfs_file_t*)
lfs_file_close(a, fs, nat) ==
    IF Arbitrary(a)
    THEN {Outcome(r, <<>>, NoNative, fs) : r \in LfsSample}
    ELSE {Outcome(LFS_ERR_OK, <<>>, NoNative, fs)}

\* lfs_ssize_t lfs_file_read(lfs_t*, lfs_file_t*, void*, lfs_size_t)
lfs_file_read(a, fs, nat, size) ==
    IF Arbitrary(a)
    THEN {Outcome(r, <<>>, nat, fs) : r \in LfsSample \ {LFS_ERR_OK}}
         \cup {Outcome(Len(d), d, nat, fs) : d \in {x \in Data : Len(x) <= size}}
    ELSE IF BitAnd(nat.acc, LFS_O_RDONLY) = 0
    THEN {Outcome(LFS_ERR_BADF, <<>>, nat, fs)}
    ELSE LET d == ReadAt(fs[nat.path].data, nat.pos, size)
         IN  {Outcome(Len(d), d, [nat EXCEPT !.pos = nat.pos + Len(d)], fs)}

\* lfs_ssize_t lfs_file_write(lfs_t*, lfs_file_t*, const void*, lfs_size_t)
lfs_file_write(a, fs, nat, d) ==
    IF Arbitrary(a)
    THEN {Outcome(r, <<>>, nat, fs) : r \in LfsSample \ {LFS_ERR_OK}}
         \cup {Outcome(n, <<>>, nat, fs) : n \in 0..Len(d)}
    ELSE IF BitAnd(nat.acc, LFS_O_WRONLY) = 0
    THEN {Outcome(LFS_ERR_BADF, <<>>, nat, fs)}
    ELSE LET old == fs[nat.path].data
             at == IF BitAnd(nat.acc, LFS_O_APPEND) # 0 THEN Len(old) ELSE nat.pos
         IN  IF at + Len(d) > MaxLen
             THEN {Outcome(LFS_ERR_NOSPC, <<>>, nat, fs)}
             ELSE {Outcome(Len(d), <<>>, [nat EXCEPT !.pos = at + Len(d)],
                           [fs EXCEPT ![nat.path].data = WriteAt(old, at, d)])}

\* lfs_soff_t lfs_file_seek(lfs_t*, lfs_file_t*, lfs_soff_t, int whence)
lfs_file_seek(a, fs, nat, off, whence) ==
    IF Arbitrary(a)
    THEN {Outcome(r, <<>>, nat, fs) : r \in LfsSample \cup {1}}
    ELSE LET base == IF whence = 0 THEN 0
                     ELSE IF whence = 1 THEN nat.pos
                     ELSE Len(fs[nat.path].data)
             npos == base + off
         IN  IF npos < 0 \/ npos > MaxLen
             THEN {Outcome(LFS_ERR_INVAL, <<>>, nat, fs)}
             ELSE {Outcome(npos, <<>>, [nat EXCEPT !.pos = npos], fs)}

\* lfs_soff_t lfs_file_tell(lfs_t*, lfs_file_t*)
lfs_file_tell(a, fs, nat) ==
    IF Arbitrary(a)
    THEN {Outcome(r, <<>>, nat, fs) : r \in LfsSample \cup {1}}
    ELSE {Outcome(nat.pos, <<>>, nat, fs)}

\* int lfs_file_sync(lfs_t*, lfs_file_t*)
lfs_file_sync(a, fs, nat) ==
    IF Arbitrary(a)
    THEN {Outcome(r, <<>>, nat, fs) : r \in LfsSample}
    ELSE {Outcome(LFS_ERR_OK, <<>>, nat, fs)}

\* int lfs_file_truncate(lfs_t*, lfs_file_t*, lfs_off_t)
lfs_file_truncate(a, fs, nat, size) ==
    IF Arbitrary(a)
    THEN {Outcome(r, <<>>, nat, fs) : r \in LfsSample}
    ELSE IF BitAnd(nat.acc, LFS_O_WRONLY) = 0
    THEN {Outcome(LFS_ERR_BADF, <<>>, nat, fs)}
    ELSE {Outcome(LFS_ERR_OK, <<>>, nat,
                  [fs EXCEPT ![nat.path].data = Resize(fs[nat.path].data, size)])}

\* faulty variant: the check looks at is_open only
BadHandle_is_open_only(handle, this) == ~handle.is_open

\* faulty variant: the check rejects only an open handle of another adapter
BadHandle_foreign_only(handle, this) == handle.is_open /\ handle.fs_impl # this

(***************************************************************************)
(* The open + identity check every handle operation starts with:           *)
(*   !handle.is_open || handle.fs_impl != this                             *)
(***************************************************************************)
BadHandle(handle, this) == ~handle.is_open \/ handle.fs_impl # this

\* faulty variant: open / opendir never look at is_open
AlreadyOpen_never(handle) == FALSE

\* open / opendir refuse a handle that is marked open: if (handle.is_open)
AlreadyOpen(handle) == handle.is_open

\* faulty variant: a successful open does not record its adapter
Opened_without_owner(this, nat) == [is_open |-> TRUE, fs_impl |-> NULL, nat |-> nat]

Opened(this, nat) == [is_open |-> TRUE, fs_impl |-> this, nat |-> nat]
\* faulty variant: close clears is_open and leaves an owner behind
Closed_keeps_owner(nat) == [is_open |-> FALSE, fs_impl |-> "F1", nat |-> nat]

Closed(nat) == [is_open |-> FALSE, fs_impl |-> NULL, nat |-> nat]

PathArg(path, mode) == [NoArg EXCEPT !.path = path, !.mode = mode]
SizeArg(n, mode) == [NoArg EXCEPT !.n = n, !.mode = mode]
DataArg(d) == [NoArg EXCEPT !.n = Len(d), !.data = d]
CountOut(n, d) == [NoOut EXCEPT !.n = n, !.data = d]

(***************************************************************************)
(* LittleFSImpl::open                                                      *)
(***************************************************************************)
LittleFSImpl_open(a, h, path, mode) ==
    /\ a \in LfsAdapters
    /\ h \in FileHandles
    /\ UNCHANGED <<mounted_, dh>>
    /\ IF ~mounted_[a]
       THEN /\ Done("open", a, h, PathArg(path, mode), "ERROR_NOT_MOUNTED", <<>>, NoOut)
            /\ UNCHANGED <<vol, fh>>
       ELSE IF AlreadyOpen(fh[h])
       THEN /\ Done("open", a, h, PathArg(path, mode), "ERROR_BAD_FILE", <<>>, NoOut)
            /\ UNCHANGED <<vol, fh>>
       ELSE LET lfs_flags == lfs_convert_open_mode(mode) IN
            \E o \in lfs_file_open(a, vol[a].files, fh[h].nat, path, lfs_flags) :
            /\ vol' = [vol EXCEPT ![a].files = o.files]
            /\ IF o.res = LFS_ERR_OK
               THEN /\ fh' = [fh EXCEPT ![h] = Opened(a, o.nat)]
                    /\ Done("open", a, h, PathArg(path, mode), "OK",
                            <<Call("lfs_file_open", lfs_flags, o.res)>>, NoOut)
               ELSE /\ fh' = [fh EXCEPT ![h].nat = o.nat]
                    /\ Done("open", a, h, PathArg(path, mode), convert_lfs_error(o.res),
                            <<Call("lfs_file_open", lfs_flags, o.res)>>, NoOut)

\* faulty variant: close clears the handle only when the backend succeeded
LittleFSImpl_close_clears_on_success(a, h) ==
    /\ a \in LfsAdapters
    /\ h \in FileHandles
    /\ UNCHANGED <<mounted_, dh>>
    /\ IF ~fh[h].is_open \/ fh[h].fs_impl # a
       THEN /\ Done("close", a, h, NoArg, "ERROR_BAD_FILE", <<>>, NoOut)
            /\ UNCHANGED <<vol, fh>>
       ELSE \E o \in lfs_file_close(a, vol[a].files, fh[h].nat) :
            /\ vol' = [vol EXCEPT ![a].files = o.files]
            /\ fh' = IF o.res = LFS_ERR_OK THEN [fh EXCEPT ![h] = Closed(o.nat)]
                     ELSE fh
            /\ Done("close", a, h, NoArg, convert_lfs_error(o.res),
                    <<Call("lfs_file_close", 0, o.res)>>, NoOut)

(***************************************************************************)
(* LittleFSImpl::close                                                     *)
(***************************************************************************)
LittleFSImpl_close(a, h) ==
    /\ a \in LfsAdapters
    /\ h \in FileHandles
    /\ UNCHANGED <<mounted_, dh>>
    /\ IF BadHandle(fh[h], a)
       THEN /\ Done("close", a, h, NoArg, "ERROR_BAD_FILE", <<>>, NoOut)
            /\ UNCHANGED <<vol, fh>>
       ELSE \E o \in lfs_file_close(a, vol[a].files, fh[h].nat) :
            /\ vol' = [vol EXCEPT ![a].files = o.files]
            /\ fh' = [fh EXCEPT ![h] = Closed(o.nat)]
            /\ Done("close", a, h, NoArg, convert_lfs_error(o.res),
                    <<Call("lfs_file_close", 0, o.res)>>, NoOut)

(***************************************************************************)
(* LittleFSImpl::read                                                      *)
(***************************************************************************)
LittleFSImpl_read(a, h, size) ==
    /\ a \in LfsAdapters
    /\ h \in FileHandles
    /\ UNCHANGED <<mounted_, dh>>
    /\ IF BadHandle(fh[h], a)
       THEN /\ Done("read", a, h, SizeArg(size, 0), "ERROR_BAD_FILE", <<>>, NoOut)
            /\ UNCHANGED <<vol, fh>>
       ELSE \E o \in lfs_file_read(a, vol[a].files, fh[h].nat, size) :
            /\ vol' = [vol EXCEPT ![a].files = o.files]
            /\ fh' = [fh EXCEPT ![h].nat = o.nat]
            /\ IF o.res >= 0
               THEN Done("read", a, h, SizeArg(size, 0), "OK",
                         <<Call("lfs_file_read", size, o.res)>>, CountOut(o.res, o.data))
               ELSE Done("read", a, h, SizeArg(size, 0), convert_lfs_error(o.res),
                         <<Call("lfs_file_read", size, o.res)>>, CountOut(0, <<>>))

(***************************************************************************)
(* LittleFSImpl::write                                                     *)
(***************************************************************************)
LittleFSImpl_write(a, h, d) ==
    /\ a \in LfsAdapters
    /\ h \in FileHandles
    /\ UNCHANGED <<mounted_, dh>>
    /\ IF BadHandle(fh[h], a)
       THEN /\ Done("write", a, h, DataArg(d), "ERROR_BAD_FILE", <<>>, NoOut)
            /\ UNCHANGED <<vol, fh>>
       ELSE \E o \in lfs_file_write(a, vol[a].files, fh[h].nat, d) :
            /\ vol' = [vol EXCEPT ![a].files = o.files]
            /\ fh' = [fh EXCEPT ![h].nat = o.nat]
            /\ IF o.res >= 0
               THEN Done("write", a, h, DataArg(d), "OK",
                         <<Call("lfs_file_write", Len(d), o.res)>>, CountOut(o.res, <<>>))
               ELSE Done("write", a, h, DataArg(d), convert_lfs_error(o.res),
                         <<Call("lfs_file_write", Len(d), o.res)>>, CountOut(0, <<>>))

(***************************************************************************)
(* LittleFSImpl::seek.  origin is the SeekOrigin value (SET 0, CUR 1,      *)
(* END 2); any other value takes the default branch.                       *)
(***************************************************************************)
LittleFSImpl_seek(a, h, offset, origin) ==
    /\ a \in LfsAdapters
    /\ h \in FileHandles
    /\ UNCHANGED <<mounted_, dh>>
    /\ IF BadHandle(fh[h], a)
       THEN /\ Done("seek", a, h, SizeArg(offset, origin), "ERROR_BAD_FILE", <<>>, NoOut)
            /\ UNCHANGED <<vol, fh>>
       ELSE IF origin \notin {0, 1, 2}
       THEN /\ Done("seek", a, h, SizeArg(offset, origin), "ERROR_INVALID", <<>>, NoOut)
            /\ UNCHANGED <<vol, fh>>
       ELSE \E o \in lfs_file_seek(a, vol[a].files, fh[h].nat, offset, origin) :
            /\ vol' = [vol EXCEPT ![a].files = o.files]
            /\ fh' = [fh EXCEPT ![h].nat = o.nat]
            /\ IF o.res >= 0
               THEN Done("seek", a, h, SizeArg(offset, origin), "OK",
                         <<Call("lfs_file_seek", offset, o.res)>>, NoOut)
               ELSE Done("seek", a, h, SizeArg(offset, origin), convert_lfs_error(o.res),
                         <<Call("lfs_file_seek", offset, o.res)>>, NoOut)

(***************************************************************************)
(* LittleFSImpl::tell                                                      *)
(***************************************************************************)
LittleFSImpl_tell(a, h) ==
    /\ a \in LfsAdapters
    /\ h \in FileHandles
    /\ UNCHANGED <<mounted_, dh>>
    /\ IF BadHandle(fh[h], a)
       THEN /\ Done("tell", a, h, NoArg, "ERROR_BAD_FILE", <<>>, NoOut)
            /\ UNCHANGED <<vol, fh>>
       ELSE \E o \in lfs_file_tell(a, vol[a].files, fh[h].nat) :
            /\ vol' = [vol EXCEPT ![a].files = o.files]
            /\ fh' = [fh EXCEPT ![h].nat = o.nat]
            /\ IF o.res >= 0
               THEN Done("tell", a, h, NoArg, "OK",
                         <<Call("lfs_file_tell", 0, o.res)>>, CountOut(o.res, <<>>))
               ELSE Done("tell", a, h, NoArg, convert_lfs_error(o.res),
                         <<Call("lfs_file_tell", 0, o.res)>>, NoOut)

(***************************************************************************)
(* LittleFSImpl::sync                                                      *)
(***************************************************************************)
LittleFSImpl_sync(a, h) ==
    /\ a \in LfsAdapters
    /\ h \in FileHandles
    /\ UNCHANGED <<mounted_, dh>>
    /\ IF BadHandle(fh[h], a)
       THEN /\ Done("sync", a, h, NoArg, "ERROR_BAD_FILE", <<>>, NoOut)
            /\ UNCHANGED <<vol, fh>>
       ELSE \E o \in lfs_file_sync(a, vol[a].files, fh[h].nat) :
            /\ vol' = [vol EXCEPT ![a].files = o.files]
            /\ fh' = [fh EXCEPT ![h].nat = o.nat]
            /\ Done("sync", a, h, NoArg, convert_lfs_error(o.res),
                    <<Call("lfs_file_sync", 0, o.res)>>, NoOut)

(***************************************************************************)
(* LittleFSImpl::truncate                                                  *)
(***************************************************************************)
LittleFSImpl_truncate(a, h, size) ==
    /\ a \in LfsAdapters
    /\ h \in FileHandles
    /\ UNCHANGED <<mounted_, dh>>
    /\ IF BadHandle(fh[h], a)
       THEN /\ Done("truncate", a, h, SizeArg(size, 0), "ERROR_BAD_FILE", <<>>, NoOut)
            /\ UNCHANGED <<vol, fh>>
       ELSE \E o \in lfs_file_truncate(a, vol[a].files, fh[h].nat, size) :
            /\ vol' = [vol EXCEPT ![a].files = o.files]
            /\ fh' = [fh EXCEPT ![h].nat = o.nat]
            /\ Done("truncate", a, h, SizeArg(size, 0), convert_lfs_error(o.res),
                    <<Call("lfs_file_truncate", size, o.res)>>, NoOut)

(***************************************************************************)
(* File calls of the FAT backend.  n is the count stored through the       *)
(* UINT* argument of f_read / f_write.                                     *)
(***************************************************************************)
FatIO(res, n, data, nat, files) ==
    [res |-> res, n |-> n, data |-> data, nat |-> nat, files |-> files]

\* FRESULT f_open(FIL*, path, BYTE mode)
f_open(a, fs, nat, path, mode) ==
    LET f == fs[path]
        creating == BitAnd(mode, BitOr(BitOr(FA_CREATE_NEW, FA_CREATE_ALWAYS), 16)) # 0
        opened(at) == [path |-> path, pos |-> at, acc |-> mode]
    IN  IF Arbitrary(a)
        THEN {Outcome(r, <<>>, IF r = FR_OK THEN opened(0) ELSE nat, fs) :
                r \in FatSample}
        ELSE IF ~f.exists
        THEN IF creating
             THEN {Outcome(FR_OK, <<>>, opened(0),
                           [fs EXCEPT ![path] = NewFile])}
             ELSE {Outcome(FR_NO_FILE, <<>>, nat, fs)}
        ELSE IF BitAnd(mode, FA_CREATE_NEW) # 0
        THEN {Outcome(FR_EXIST, <<>>, nat, fs)}
        ELSE IF f.isdir
        THEN {Outcome(IF creating THEN FR_DENIED ELSE FR_NO_FILE, <<>>, nat, fs)}
        ELSE IF BitAnd(mode, FA_CREATE_ALWAYS) # 0
        THEN {Outcome(FR_OK, <<>>, opened(0), [fs EXCEPT ![path].data = <<>>])}
        ELSE {Outcome(FR_OK, <<>>,
                      opened(IF BitAnd(mode, 32) # 0 THEN Len(f.data) ELSE 0), fs)}

\* FRESULT f_close(FIL*)
f_close(a, fs, nat) ==
    IF Arbitrary(a)
    THEN {Outcome(r, <<>>, NoNative, fs) : r \in FatSample}
    ELSE {Outcome(FR_OK, <<>>, NoNative, fs)}

\* FRESULT f_read(FIL*, void*, UINT btr, UINT* br)
f_read(a, fs, nat, size) ==
    IF Arbitrary(a)
    THEN {FatIO(r, 0, <<>>, nat, fs) : r \in FatSample \ {FR_OK}}
         \cup {FatIO(FR_OK, Len(d), d, nat, fs) : d \in {x \in Data : Len(x) <= size}}
    ELSE IF BitAnd(nat.acc, FA_READ) = 0
    THEN {FatIO(FR_DENIED, 0, <<>>, nat, fs)}
    ELSE LET d == ReadAt(fs[nat.path].data, nat.pos, size)
         IN  {FatIO(FR_OK, Len(d), d, [nat EXCEPT !.pos = nat.pos + Len(d)], fs)}

\* FRESULT f_write(FIL*, const void*, UINT btw, UINT* bw): a full medium
\* shortens the transfer and is no error
f_write(a, fs, nat, d) ==
    IF Arbitrary(a)
    THEN {FatIO(r, 0, <<>>, nat, fs) : r \in FatSample \ {FR_OK}}
         \cup {FatIO(FR_OK, n, <<>>, nat, fs) : n \in 0..Len(d)}
    ELSE IF BitAnd(nat.acc, FA_WRITE) = 0
    THEN {FatIO(FR_DENIED, 0, <<>>, nat, fs)}
    ELSE LET old == fs[nat.path].data
             n == Min(Len(d), Max(0, MaxLen - nat.pos))
             part == SubSeq(d, 1, n)
         IN  {FatIO(FR_OK, n, <<>>, [nat EXCEPT !.pos = nat.pos + n],
                    [fs EXCEPT ![nat.path].data = WriteAt(old, nat.pos, part)])}

\* f_tell(fp): the read/write pointer kept in the FIL object
f_tell(a, nat) == nat.pos

\* f_size(fp): the file size kept in the FIL object
f_size(a, fs, nat) ==
    IF Arbitrary(a) THEN 0 ELSE Len(fs[nat.path].data)

\* FRESULT f_lseek(FIL*, FSIZE_t ofs): beyond the end a writable file grows
\* (as far as the medium allows) and a read-only file stops at its end
f_lseek(a, fs, nat, ofs) ==
    IF Arbitrary(a)
    THEN {Outcome(r, <<>>, nat, fs) : r \in FatSample}
    ELSE LET old == fs[nat.path].data
             to == IF ofs <= Len(old) THEN ofs
                   ELSE IF BitAnd(nat.acc, FA_WRITE) # 0 THEN Min(ofs, MaxLen)
                   ELSE Len(old)
         IN  {Outcome(FR_OK, <<>>, [nat EXCEPT !.pos = to],
                      [fs EXCEPT ![nat.path].data = Resize(old, Max(Len(old), to))])}

\* FRESULT f_sync(FIL*)
f_sync(a, fs, nat) ==
    IF Arbitrary(a)
    THEN {Outcome(r, <<>>, nat, fs) : r \in FatSample}
    ELSE {Outcome(FR_OK, <<>>, nat, fs)}

\* FRESULT f_truncate(FIL*): cuts the file at the read/write pointer
f_truncate(a, fs, nat) ==
    IF Arbitrary(a)
    THEN {Outcome(r, <<>>, nat, fs) : r \in FatSample}
    ELSE IF BitAnd(nat.acc, FA_WRITE) = 0
    THEN {Outcome(FR_DENIED, <<>>, nat, fs)}
    ELSE {Outcome(FR_OK, <<>>, nat,
                  [fs EXCEPT ![nat.path].data =
                       Resize(fs[nat.path].data, Min(nat.pos, Len(fs[nat.path].data)))])}

(***************************************************************************)
(* FatFSImpl::open                                                         *)
(***************************************************************************)
FatFSImpl_open(a, h, path, mode) ==
    /\ a \in FatAdapters
    /\ h \in FileHandles
    /\ UNCHANGED <<mounted_, dh>>
    /\ IF ~mounted_[a]
       THEN /\ Done("open", a, h, PathArg(path, mode), "ERROR_NOT_MOUNTED", <<>>, NoOut)
            /\ UNCHANGED <<vol, fh>>
       ELSE IF AlreadyOpen(fh[h])
       THEN /\ Done("open", a, h, PathArg(path, mode), "ERROR_BAD_FILE", <<>>, NoOut)
            /\ UNCHANGED <<vol, fh>>
       ELSE LET fat_mode == fat_convert_open_mode(mode) IN
            \E o \in f_open(a, vol[a].files, fh[h].nat, path, fat_mode) :
            /\ vol' = [vol EXCEPT ![a].files = o.files]
            /\ IF o.res = FR_OK
               THEN /\ fh' = [fh EXCEPT ![h] = Opened(a, o.nat)]
                    /\ Done("open", a, h, PathArg(path, mode), "OK",
                            <<Call("f_open", fat_mode, o.res)>>, NoOut)
               ELSE /\ fh' = [fh EXCEPT ![h].nat = o.nat]
                    /\ Done("open", a, h, PathArg(path, mode), convert_fatfs_error(o.res),
                            <<Call("f_open", fat_mode, o.res)>>, NoOut)

(***************************************************************************)
(* FatFSImpl::close                                                        *)
(***************************************************************************)
FatFSImpl_close(a, h) ==
    /\ a \in FatAdapters
    /\ h \in FileHandles
    /\ UNCHANGED <<mounted_, dh>>
    /\ IF BadHandle(fh[h], a)
       THEN /\ Done("close", a, h, NoArg, "ERROR_BAD_FILE", <<>>, NoOut)
            /\ UNCHANGED <<vol, fh>>
       ELSE \E o \in f_close(a, vol[a].files, fh[h].nat) :
            /\ vol' = [vol EXCEPT ![a].files = o.files]
            /\ fh' = [fh EXCEPT ![h] = Closed(o.nat)]
            /\ Done("close", a, h, NoArg, convert_fatfs_error(o.res),
                    <<Call("f_close", 0, o.res)>>, NoOut)

(***************************************************************************)
(* FatFSImpl::read                                                         *)
(***************************************************************************)
FatFSImpl_read(a, h, size) ==
    /\ a \in FatAdapters
    /\ h \in FileHandles
    /\ UNCHANGED <<mounted_, dh>>
    /\ IF BadHandle(fh[h], a)
       THEN /\ Done("read", a, h, SizeArg(size, 0), "ERROR_BAD_FILE", <<>>, NoOut)
            /\ UNCHANGED <<vol, fh>>
       ELSE \E o \in f_read(a, vol[a].files, fh[h].nat, size) :
            /\ vol' = [vol EXCEPT ![a].files = o.files]
            /\ fh' = [fh EXCEPT ![h].nat = o.nat]
            /\ Done("read", a, h, SizeArg(size, 0), convert_fatfs_error(o.res),
                    <<Call("f_read", size, o.res)>>, CountOut(o.n, o.data))

(***************************************************************************)
(* FatFSImpl::write                                                        *)
(***************************************************************************)
FatFSImpl_write(a, h, d) ==
    /\ a \in FatAdapters
    /\ h \in FileHandles
    /\ UNCHANGED <<mounted_, dh>>
    /\ IF BadHandle(fh[h], a)
       THEN /\ Done("write", a, h, DataArg(d), "ERROR_BAD_FILE", <<>>, NoOut)
            /\ UNCHANGED <<vol, fh>>
       ELSE \E o \in f_write(a, vol[a].files, fh[h].nat, d) :
            /\ vol' = [vol EXCEPT ![a].files = o.files]
            /\ fh' = [fh EXCEPT ![h].nat = o.nat]
            /\ Done("write", a, h, DataArg(d), convert_fatfs_error(o.res),
                    <<Call("f_write", Len(d), o.res)>>, CountOut(o.n, <<>>))

(***************************************************************************)
(* Integer widths, scaled: int32_t is modelled as a signed integer of      *)
(* IntBits bits, FSIZE_t as an unsigned integer of as many bits (DWORD) or *)
(* of twice as many (QWORD, a build with exFAT support).                   *)
(***************************************************************************)
IntBits == 3

RECURSIVE Exp2(_)
Exp2(n) == IF n = 0 THEN 1 ELSE 2 * Exp2(n - 1)

FsizeBits == {IntBits, 2 * IntBits}

\* static_cast<FSIZE_t>(x), and the result of unsigned arithmetic in FSIZE_t
AsFSIZE(x, bits) == x % Exp2(bits)

\* -offset in int32_t: negating the most negative value overflows, which is
\* undefined; the build may produce any value of the type
Negated(offset) ==
    IF offset = -Exp2(IntBits - 1)
    THEN -Exp2(IntBits - 1)..(Exp2(IntBits - 1) - 1)
    ELSE {-offset}

\* the values new_pos can have after the switch on origin (SET, CUR, END)
seek_new_pos(origin, offset, current_pos, file_size, bits) ==
    IF origin = 0
    THEN {AsFSIZE(IF offset >= 0 THEN offset ELSE 0, bits)}
    ELSE LET base == IF origin = 1 THEN current_pos ELSE file_size IN
         IF offset >= 0
         THEN {AsFSIZE(base + AsFSIZE(offset, bits), bits)}
         ELSE {LET abs_offset == AsFSIZE(n, bits)
               IN  IF base >= abs_offset THEN base - abs_offset ELSE 0 :
                 n \in Negated(offset)}

(***************************************************************************)
(* FatFSImpl::seek                                                         *)
(***************************************************************************)
FatFSImpl_seek(a, h, offset, origin) ==
    /\ a \in FatAdapters
    /\ h \in FileHandles
    /\ UNCHANGED <<mounted_, dh>>
    /\ IF BadHandle(fh[h], a)
       THEN /\ Done("seek", a, h, SizeArg(offset, origin), "ERROR_BAD_FILE", <<>>, NoOut)
            /\ UNCHANGED <<vol, fh>>
       ELSE LET current_pos == f_tell(a, fh[h].nat)
                file_size == f_size(a, vol[a].files, fh[h].nat)
                queries == <<Call("f_tell", 0, current_pos), Call("f_size", 0, file_size)>>
            IN  IF origin \notin {0, 1, 2}
                THEN /\ Done("seek", a, h, SizeArg(offset, origin), "ERROR_INVALID",
                             queries, NoOut)
                     /\ UNCHANGED <<vol, fh>>
                ELSE \E bits \in FsizeBits :
                     \E new_pos \in seek_new_pos(origin, offset, current_pos,
                                                 file_size, bits) :
                     \E o \in f_lseek(a, vol[a].files, fh[h].nat, new_pos) :
                     /\ vol' = [vol EXCEPT ![a].files = o.files]
                     /\ fh' = [fh EXCEPT ![h].nat = o.nat]
                     /\ Done("seek", a, h, SizeArg(offset, origin),
                             convert_fatfs_error(o.res),
                             queries \o <<Call("f_lseek", new_pos, o.res)>>, NoOut)

\* faulty variant: tell reads the file position before it checks the handle
FatFSImpl_tell_queries_first(a, h) ==
    /\ a \in FatAdapters
    /\ h \in FileHandles
    /\ UNCHANGED <<mounted_, dh, vol, fh>>
    /\ LET pos == f_tell(a, fh[h].nat) IN
       IF ~fh[h].is_open \/ fh[h].fs_impl # a
       THEN Done("tell", a, h, NoArg, "ERROR_BAD_FILE",
                 <<Call("f_tell", 0, pos)>>, NoOut)
       ELSE Done("tell", a, h, NoArg, "OK",
                 <<Call("f_tell", 0, pos)>>, CountOut(pos, <<>>))

(***************************************************************************)
(* FatFSImpl::tell                                                         *)
(***************************************************************************)
FatFSImpl_tell(a, h) ==
    /\ a \in FatAdapters
    /\ h \in FileHandles
    /\ UNCHANGED <<mounted_, dh, vol, fh>>
    /\ IF BadHandle(fh[h], a)
       THEN Done("tell", a, h, NoArg, "ERROR_BAD_FILE", <<>>, NoOut)
       ELSE Done("tell", a, h, NoArg, "OK",
                 <<Call("f_tell", 0, f_tell(a, fh[h].nat))>>,
                 CountOut(f_tell(a, fh[h].nat), <<>>))

(***************************************************************************)
(* FatFSImpl::sync                                                         *)
(***************************************************************************)
FatFSImpl_sync(a, h) ==
    /\ a \in FatAdapters
    /\ h \in FileHandles
    /\ UNCHANGED <<mounted_, dh>>
    /\ IF BadHandle(fh[h], a)
       THEN /\ Done("sync", a, h, NoArg, "ERROR_BAD_FILE", <<>>, NoOut)
            /\ UNCHANGED <<vol, fh>>
       ELSE \E o \in f_sync(a, vol[a].files, fh[h].nat) :
            /\ vol' = [vol EXCEPT ![a].files = o.files]
            /\ fh' = [fh EXCEPT ![h].nat = o.nat]
            /\ Done("sync", a, h, NoArg, convert_fatfs_error(o.res),
                    <<Call("f_sync", 0, o.res)>>, NoOut)

(***************************************************************************)
(* FatFSImpl::truncate: seek to size, truncate there, seek back when the   *)
(* saved position is not beyond size (the result of that seek is dropped). *)
(***************************************************************************)
\* faulty variant: truncate seeks back to the saved position even when it lies
\* beyond the new size
FatFSImpl_truncate_always_restores(a, h, size) ==
    /\ a \in FatAdapters
    /\ h \in FileHandles
    /\ UNCHANGED <<mounted_, dh>>
    /\ IF BadHandle(fh[h], a)
       THEN /\ Done("truncate", a, h, SizeArg(size, 0), "ERROR_BAD_FILE", <<>>, NoOut)
            /\ UNCHANGED <<vol, fh>>
       ELSE LET current_pos == f_tell(a, fh[h].nat)
                c0 == Call("f_tell", 0, current_pos)
            IN  \E o1 \in f_lseek(a, vol[a].files, fh[h].nat, size) :
                LET c1 == Call("f_lseek", size, o1.res)
                    v1 == [vol EXCEPT ![a].files = o1.files]
                IN  IF o1.res # FR_OK
                    THEN /\ vol' = v1
                         /\ fh' = [fh EXCEPT ![h].nat = o1.nat]
                         /\ Done("truncate", a, h, SizeArg(size, 0),
                                 convert_fatfs_error(o1.res), <<c0, c1>>, NoOut)
                    ELSE \E o2 \in f_truncate(a, o1.files, o1.nat) :
                         LET c2 == Call("f_truncate", 0, o2.res) IN
                         IF o2.res # FR_OK
                         THEN /\ vol' = [vol EXCEPT ![a].files = o2.files]
                              /\ fh' = [fh EXCEPT ![h].nat = o2.nat]
                              /\ Done("truncate", a, h, SizeArg(size, 0),
                                      convert_fatfs_error(o2.res), <<c0, c1, c2>>, NoOut)
                         ELSE IF current_pos <= size \/ TRUE
                         THEN \E o3 \in f_lseek(a, o2.files, o2.nat, current_pos) :
                              /\ vol' = [vol EXCEPT ![a].files = o3.files]
                              /\ fh' = [fh EXCEPT ![h].nat = o3.nat]
                              /\ Done("truncate", a, h, SizeArg(size, 0), "OK",
                                      <<c0, c1, c2, Call("f_lseek", current_pos, o3.res)>>,
                                      NoOut)
                         ELSE /\ vol' = [vol EXCEPT ![a].files = o2.files]
                              /\ fh' = [fh EXCEPT ![h].nat = o2.nat]
                              /\ Done("truncate", a, h, SizeArg(size, 0), "OK",
                                      <<c0, c1, c2>>, NoOut)

FatFSImpl_truncate(a, h, size) ==
    /\ a \in FatAdapters
    /\ h \in FileHandles
    /\ UNCHANGED <<mounted_, dh>>
    /\ IF BadHandle(fh[h], a)
       THEN /\ Done("truncate", a, h, SizeArg(size, 0), "ERROR_BAD_FILE", <<>>, NoOut)
            /\ UNCHANGED <<vol, fh>>
       ELSE LET current_pos == f_tell(a, fh[h].nat)
                c0 == Call("f_tell", 0, current_pos)
            IN  \E o1 \in f_lseek(a, vol[a].files, fh[h].nat, size) :
                LET c1 == Call("f_lseek", size, o1.res)
                    v1 == [vol EXCEPT ![a].files = o1.files]
                IN  IF o1.res # FR_OK
                    THEN /\ vol' = v1
                         /\ fh' = [fh EXCEPT ![h].nat = o1.nat]
                         /\ Done("truncate", a, h, SizeArg(size, 0),
                                 convert_fatfs_error(o1.res), <<c0, c1>>, NoOut)
                    ELSE \E o2 \in f_truncate(a, o1.files, o1.nat) :
                         LET c2 == Call("f_truncate", 0, o2.res) IN
                         IF o2.res # FR_OK
                         THEN /\ vol' = [vol EXCEPT ![a].files = o2.files]
                              /\ fh' = [fh EXCEPT ![h].nat = o2.nat]
                              /\ Done("truncate", a, h, SizeArg(size, 0),
                                      convert_fatfs_error(o2.res), <<c0, c1, c2>>, NoOut)
                         ELSE IF current_pos <= size
                         THEN \E o3 \in f_lseek(a, o2.files, o2.nat, current_pos) :
                              /\ vol' = [vol EXCEPT ![a].files = o3.files]
                              /\ fh' = [fh EXCEPT ![h].nat = o3.nat]
                              /\ Done("truncate", a, h, SizeArg(size, 0), "OK",
                                      <<c0, c1, c2, Call("f_lseek", current_pos, o3.res)>>,
                                      NoOut)
                         ELSE /\ vol' = [vol EXCEPT ![a].files = o2.files]
                              /\ fh' = [fh EXCEPT ![h].nat = o2.nat]
                              /\ Done("truncate", a, h, SizeArg(size, 0), "OK",
                                      <<c0, c1, c2>>, NoOut)

(***************************************************************************)
(* Directory and path calls of the backends.  The reference volume has a   *)
(* root directory "/" whose entries are the paths that exist.              *)
(***************************************************************************)
Root == "/"
PathSeq == <<"/a.txt">>
BaseName(path) == IF path = "/a.txt" THEN "a.txt" ELSE path

Entries(fs) == SelectSeq(PathSeq, LAMBDA p : fs[p].exists)

\* the flash-log backend lists "." and ".." before the entries
LfsListing(fs) == <<".", "..">> \o Entries(fs)

DirOutcome(res, name, size, isdir, nat) ==
    [res |-> res, name |-> name, size |-> size, isdir |-> isdir, nat |-> nat]

InfoOf(fs, entry) ==
    IF entry \in Paths
    THEN [name |-> BaseName(entry), size |-> Len(fs[entry].data), isdir |-> fs[entry].isdir]
    ELSE [name |-> entry, size |-> 0, isdir |-> TRUE]

\* int lfs_dir_open(lfs_t*, lfs_dir_t*, path)
lfs_dir_open(a, fs, nat, path) ==
    LET opened == [path |-> path, pos |-> 0, acc |-> 0] IN
    IF Arbitrary(a)
    THEN {Outcome(r, <<>>, IF r = LFS_ERR_OK THEN opened ELSE nat, fs) : r \in LfsSample}
    ELSE IF path = Root \/ (path \in Paths /\ fs[path].exists /\ fs[path].isdir)
    THEN {Outcome(LFS_ERR_OK, <<>>, opened, fs)}
    ELSE IF path \in Paths /\ fs[path].exists
    THEN {Outcome(LFS_ERR_NOTDIR, <<>>, nat, fs)}
    ELSE {Outcome(LFS_ERR_NOENT, <<>>, nat, fs)}

\* int lfs_dir_close(lfs_t*, lfs_dir_t*)
lfs_dir_close(a, fs, nat) ==
    IF Arbitrary(a)
    THEN {Outcome(r, <<>>, NoNative, fs) : r \in LfsSample}
    ELSE {Outcome(LFS_ERR_OK, <<>>, NoNative, fs)}

\* int lfs_dir_read(lfs_t*, lfs_dir_t*, lfs_info*): positive for an entry,
\* zero at the end, negative on failure
lfs_dir_read(a, fs, nat) ==
    IF Arbitrary(a)
    THEN {DirOutcome(r, "", 0, FALSE, nat) : r \in LfsSample}
         \cup {DirOutcome(1, "x", 1, FALSE, nat)}
    ELSE LET list == IF nat.path = Root THEN LfsListing(fs) ELSE <<".", "..">>
         IN  IF nat.pos < Len(list)
             THEN LET i == InfoOf(fs, list[nat.pos + 1])
                  IN  {DirOutcome(1, i.name, i.size, i.isdir,
                                  [nat EXCEPT !.pos = nat.pos + 1])}
             ELSE {DirOutcome(0, "", 0, FALSE, nat)}

\* int lfs_dir_rewind(lfs_t*, lfs_dir_t*)
lfs_dir_rewind(a, fs, nat) ==
    IF Arbitrary(a)
    THEN {Outcome(r, <<>>, nat, fs) : r \in LfsSample}
    ELSE {Outcome(LFS_ERR_OK, <<>>, [nat EXCEPT !.pos = 0], fs)}

\* FRESULT f_opendir(DIR*, path)
f_opendir(a, fs, nat, path) ==
    LET opened == [path |-> path, pos |-> 0, acc |-> 0] IN
    IF Arbitrary(a)
    THEN {Outcome(r, <<>>, IF r = FR_OK THEN opened ELSE nat, fs) : r \in FatSample}
    ELSE IF path = Root \/ (path \in Paths /\ fs[path].exists /\ fs[path].isdir)
    THEN {Outcome(FR_OK, <<>>, opened, fs)}
    ELSE {Outcome(FR_NO_PATH, <<>>, nat, fs)}

\* FRESULT f_closedir(DIR*)
f_closedir(a, fs, nat) ==
    IF Arbitrary(a)
    THEN {Outcome(r, <<>>, NoNative, fs) : r \in FatSample}
    ELSE {Outcome(FR_OK, <<>>, NoNative, fs)}

\* FRESULT f_readdir(DIR*, FILINFO*): FR_OK with an empty fname at the end
f_readdir(a, fs, nat) ==
    IF Arbitrary(a)
    THEN {DirOutcome(r, "", 0, FALSE, nat) : r \in FatSample}
         \cup {DirOutcome(FR_OK, "x", 1, FALSE, nat)}
    ELSE LET list == IF nat.path = Root THEN Entries(fs) ELSE <<>>
         IN  IF nat.pos < Len(list)
             THEN LET i == InfoOf(fs, list[nat.pos + 1])
                  IN  {DirOutcome(FR_OK, i.name, i.size, i.isdir,
                                  [nat EXCEPT !.pos = nat.pos + 1])}
             ELSE {DirOutcome(FR_OK, "", 0, FALSE, nat)}

\* FRESULT f_rewinddir(DIR*), that is f_readdir(dp, 0)
f_rewinddir(a, fs, nat) ==
    IF Arbitrary(a)
    THEN {Outcome(r, <<>>, nat, fs) : r \in FatSample}
    ELSE {Outcome(FR_OK, <<>>, [nat EXCEPT !.pos = 0], fs)}

InfoOut(name, size, isdir, modified_time) ==
    [n |-> size, data |-> <<>>, name |-> name, dir |-> isdir, mtime |-> modified_time]

\* the packed date and time words the FAT backend reports for an entry
FatStamp == [fdate |-> 1, ftime |-> 2]

\* static_cast<uint32_t>(fno.fdate) << 16 | fno.ftime
PackedTime(fno) == BitOr(fno.fdate * 65536, fno.ftime)

(***************************************************************************)
(* LittleFSImpl::opendir                                                   *)
(***************************************************************************)
LittleFSImpl_opendir(a, h, path) ==
    /\ a \in LfsAdapters
    /\ h \in DirHandles
    /\ UNCHANGED <<mounted_, fh>>
    /\ IF ~mounted_[a]
       THEN /\ Done("opendir", a, h, PathArg(path, 0), "ERROR_NOT_MOUNTED", <<>>, NoOut)
            /\ UNCHANGED <<vol, dh>>
       ELSE IF AlreadyOpen(dh[h])
       THEN /\ Done("opendir", a, h, PathArg(path, 0), "ERROR_BAD_FILE", <<>>, NoOut)
            /\ UNCHANGED <<vol, dh>>
       ELSE \E o \in lfs_dir_open(a, vol[a].files, dh[h].nat, path) :
            /\ UNCHANGED vol
            /\ IF o.res = LFS_ERR_OK
               THEN /\ dh' = [dh EXCEPT ![h] = Opened(a, o.nat)]
                    /\ Done("opendir", a, h, PathArg(path, 0), "OK",
                            <<Call("lfs_dir_open", 0, o.res)>>, NoOut)
               ELSE /\ dh' = [dh EXCEPT ![h].nat = o.nat]
                    /\ Done("opendir", a, h, PathArg(path, 0), convert_lfs_error(o.res),
                            <<Call("lfs_dir_open", 0, o.res)>>, NoOut)

(***************************************************************************)
(* LittleFSImpl::closedir                                                  *)
(***************************************************************************)
LittleFSImpl_closedir(a, h) ==
    /\ a \in LfsAdapters
    /\ h \in DirHandles
    /\ UNCHANGED <<mounted_, fh, vol>>
    /\ IF BadHandle(dh[h], a)
       THEN /\ Done("closedir", a, h, NoArg, "ERROR_BAD_FILE", <<>>, NoOut)
            /\ UNCHANGED dh
       ELSE \E o \in lfs_dir_close(a, vol[a].files, dh[h].nat) :
            /\ dh' = [dh EXCEPT ![h] = Closed(o.nat)]
            /\ Done("closedir", a, h, NoArg, convert_lfs_error(o.res),
                    <<Call("lfs_dir_close", 0, o.res)>>, NoOut)

(***************************************************************************)
(* LittleFSImpl::readdir                                                   *)
(***************************************************************************)
\* faulty variant: the end of the directory is reported as an error
LittleFSImpl_readdir_end_is_error(a, h) ==
    /\ a \in LfsAdapters
    /\ h \in DirHandles
    /\ UNCHANGED <<mounted_, fh, vol>>
    /\ IF BadHandle(dh[h], a)
       THEN /\ Done("readdir", a, h, NoArg, "ERROR_BAD_FILE", <<>>, NoOut)
            /\ UNCHANGED dh
       ELSE \E o \in lfs_dir_read(a, vol[a].files, dh[h].nat) :
            /\ dh' = [dh EXCEPT ![h].nat = o.nat]
            /\ IF o.res > 0
               THEN Done("readdir", a, h, NoArg, "OK",
                         <<Call("lfs_dir_read", 0, o.res)>>,
                         InfoOut(o.name, o.size, o.isdir, 0))
               ELSE IF o.res = 0
               THEN Done("readdir", a, h, NoArg, "ERROR_NOT_FOUND",
                         <<Call("lfs_dir_read", 0, o.res)>>, NoOut)
               ELSE Done("readdir", a, h, NoArg, convert_lfs_error(o.res),
                         <<Call("lfs_dir_read", 0, o.res)>>, NoOut)

LittleFSImpl_readdir(a, h) ==
    /\ a \in LfsAdapters
    /\ h \in DirHandles
    /\ UNCHANGED <<mounted_, fh, vol>>
    /\ IF BadHandle(dh[h], a)
       THEN /\ Done("readdir", a, h, NoArg, "ERROR_BAD_FILE", <<>>, NoOut)
            /\ UNCHANGED dh
       ELSE \E o \in lfs_dir_read(a, vol[a].files, dh[h].nat) :
            /\ dh' = [dh EXCEPT ![h].nat = o.nat]
            /\ IF o.res > 0
               THEN Done("readdir", a, h, NoArg, "OK",
                         <<Call("lfs_dir_read", 0, o.res)>>,
                         InfoOut(o.name, o.size, o.isdir, 0))
               ELSE IF o.res = 0
               THEN Done("readdir", a, h, NoArg, "OK",
                         <<Call("lfs_dir_read", 0, o.res)>>,
                         [NoOut EXCEPT !.name = ""])
               ELSE Done("readdir", a, h, NoArg, convert_lfs_error(o.res),
                         <<Call("lfs_dir_read", 0, o.res)>>, NoOut)

(***************************************************************************)
(* LittleFSImpl::rewinddir                                                 *)
(***************************************************************************)
LittleFSImpl_rewinddir(a, h) ==
    /\ a \in LfsAdapters
    /\ h \in DirHandles
    /\ UNCHANGED <<mounted_, fh, vol>>
    /\ IF BadHandle(dh[h], a)
       THEN /\ Done("rewinddir", a, h, NoArg, "ERROR_BAD_FILE", <<>>, NoOut)
            /\ UNCHANGED dh
       ELSE \E o \in lfs_dir_rewind(a, vol[a].files, dh[h].nat) :
            /\ dh' = [dh EXCEPT ![h].nat = o.nat]
            /\ Done("rewinddir", a, h, NoArg, convert_lfs_error(o.res),
                    <<Call("lfs_dir_rewind", 0, o.res)>>, NoOut)

(***************************************************************************)
(* FatFSImpl::opendir                                                      *)
(***************************************************************************)
FatFSImpl_opendir(a, h, path) ==
    /\ a \in FatAdapters
    /\ h \in DirHandles
    /\ UNCHANGED <<mounted_, fh>>
    /\ IF ~mounted_[a]
       THEN /\ Done("opendir", a, h, PathArg(path, 0), "ERROR_NOT_MOUNTED", <<>>, NoOut)
            /\ UNCHANGED <<vol, dh>>
       ELSE IF AlreadyOpen(dh[h])
       THEN /\ Done("opendir", a, h, PathArg(path, 0), "ERROR_BAD_FILE", <<>>, NoOut)
            /\ UNCHANGED <<vol, dh>>
       ELSE \E o \in f_opendir(a, vol[a].files, dh[h].nat, path) :
            /\ UNCHANGED vol
            /\ IF o.res = FR_OK
               THEN /\ dh' = [dh EXCEPT ![h] = Opened(a, o.nat)]
                    /\ Done("opendir", a, h, PathArg(path, 0), "OK",
                            <<Call("f_opendir", 0, o.res)>>, NoOut)
               ELSE /\ dh' = [dh EXCEPT ![h].nat = o.nat]
                    /\ Done("opendir", a, h, PathArg(path, 0), convert_fatfs_error(o.res),
                            <<Call("f_opendir", 0, o.res)>>, NoOut)

(***************************************************************************)
(* FatFSImpl::closedir                                                     *)
(***************************************************************************)
FatFSImpl_closedir(a, h) ==
    /\ a \in FatAdapters
    /\ h \in DirHandles
    /\ UNCHANGED <<mounted_, fh, vol>>
    /\ IF BadHandle(dh[h], a)
       THEN /\ Done("closedir", a, h, NoArg, "ERROR_BAD_FILE", <<>>, NoOut)
            /\ UNCHANGED dh
       ELSE \E o \in f_closedir(a, vol[a].files, dh[h].nat) :
            /\ dh' = [dh EXCEPT ![h] = Closed(o.nat)]
            /\ Done("closedir", a, h, NoArg, convert_fatfs_error(o.res),
                    <<Call("f_closedir", 0, o.res)>>, NoOut)

(***************************************************************************)
(* FatFSImpl::readdir                                                      *)
(***************************************************************************)
FatFSImpl_readdir(a, h) ==
    /\ a \in FatAdapters
    /\ h \in DirHandles
    /\ UNCHANGED <<mounted_, fh, vol>>
    /\ IF BadHandle(dh[h], a)
       THEN /\ Done("readdir", a, h, NoArg, "ERROR_BAD_FILE", <<>>, NoOut)
            /\ UNCHANGED dh
       ELSE \E o \in f_readdir(a, vol[a].files, dh[h].nat) :
            /\ dh' = [dh EXCEPT ![h].nat = o.nat]
            /\ IF o.res = FR_OK
               THEN IF o.name = ""
                    THEN Done("readdir", a, h, NoArg, "OK",
                              <<Call("f_readdir", 0, o.res)>>,
                              [NoOut EXCEPT !.name = ""])
                    ELSE Done("readdir", a, h, NoArg, "OK",
                              <<Call("f_readdir", 0, o.res)>>,
                              InfoOut(o.name, o.size, o.isdir, PackedTime(FatStamp)))
               ELSE Done("readdir", a, h, NoArg, convert_fatfs_error(o.res),
                         <<Call("f_readdir", 0, o.res)>>, NoOut)

(***************************************************************************)
(* FatFSImpl::rewinddir                                                    *)
(***************************************************************************)
FatFSImpl_rewinddir(a, h) ==
    /\ a \in FatAdapters
    /\ h \in DirHandles
    /\ UNCHANGED <<mounted_, fh, vol>>
    /\ IF BadHandle(dh[h], a)
       THEN /\ Done("rewinddir", a, h, NoArg, "ERROR_BAD_FILE", <<>>, NoOut)
            /\ UNCHANGED dh
       ELSE \E o \in f_rewinddir(a, vol[a].files, dh[h].nat) :
            /\ dh' = [dh EXCEPT ![h].nat = o.nat]
            /\ Done("rewinddir", a, h, NoArg, convert_fatfs_error(o.res),
                    <<Call("f_rewinddir", 0, o.res)>>, NoOut)

(***************************************************************************)
(* Path and space calls of the backends.                                   *)
(***************************************************************************)
\* The 32-bit types of the space computations (lfs_size_t, DWORD) are
\* modelled with WordBits bits and uint64_t with twice as many: wide enough
\* for the configured geometry, and a product of two words does not fit a word.
WordBits == 13

\* faulty variant: the product is computed in a 32-bit word
uint64_t_of_word_width(x) == x % Exp2(WordBits)

\* static_cast<uint64_t>(x), and the result of arithmetic in uint64_t
uint64_t(x) == x % Exp2(2 * WordBits)

\* lfs_config::block_size and block_count of the configuration in use
block_size == 4096
block_count == 4096

\* the cluster size (sectors) and FAT entry count the FAT backend reports
FatGeometry == [csize |-> 1, n_fatent |-> 10]

Used(fs) == Cardinality({p \in Paths : fs[p].exists})

PathOutcome(res, info, files) == [res |-> res, info |-> info, files |-> files]
NoInfo == [name |-> "", size |-> 0, isdir |-> FALSE]

\* int lfs_remove(lfs_t*, path)
lfs_remove(a, fs, path) ==
    IF Arbitrary(a) THEN {PathOutcome(r, NoInfo, fs) : r \in LfsSample}
    ELSE IF ~fs[path].exists THEN {PathOutcome(LFS_ERR_NOENT, NoInfo, fs)}
    ELSE {PathOutcome(LFS_ERR_OK, NoInfo, [fs EXCEPT ![path] = NoFile])}

\* int lfs_rename(lfs_t*, oldpath, newpath)
lfs_rename(a, fs, old_path, new_path) ==
    IF Arbitrary(a) THEN {PathOutcome(r, NoInfo, fs) : r \in LfsSample}
    ELSE IF ~fs[old_path].exists THEN {PathOutcome(LFS_ERR_NOENT, NoInfo, fs)}
    ELSE IF old_path = new_path THEN {PathOutcome(LFS_ERR_OK, NoInfo, fs)}
    ELSE {PathOutcome(LFS_ERR_OK, NoInfo,
                      [fs EXCEPT ![new_path] = fs[old_path], ![old_path] = NoFile])}

\* int lfs_stat(lfs_t*, path, lfs_info*)
lfs_stat(a, fs, path) ==
    IF Arbitrary(a)
    THEN {PathOutcome(r, [name |-> "x", size |-> 1, isdir |-> FALSE], fs) : r \in LfsSample}
    ELSE IF ~fs[path].exists THEN {PathOutcome(LFS_ERR_NOENT, NoInfo, fs)}
    ELSE {PathOutcome(LFS_ERR_OK, InfoOf(fs, path), fs)}

\* int lfs_mkdir(lfs_t*, path)
lfs_mkdir(a, fs, path) ==
    IF Arbitrary(a) THEN {PathOutcome(r, NoInfo, fs) : r \in LfsSample}
    ELSE IF fs[path].exists THEN {PathOutcome(LFS_ERR_EXIST, NoInfo, fs)}
    ELSE {PathOutcome(LFS_ERR_OK, NoInfo, [fs EXCEPT ![path] = NewDir])}

\* lfs_ssize_t lfs_fs_size(lfs_t*): blocks in use, or a negative code
lfs_fs_size(a, fs) ==
    IF Arbitrary(a) THEN (LfsSample \ {LFS_ERR_OK}) \cup {2, block_count + 1}
    ELSE {2 + Used(fs)}

\* FRESULT f_unlink(path)
f_unlink(a, fs, path) ==
    IF Arbitrary(a) THEN {PathOutcome(r, NoInfo, fs) : r \in FatSample}
    ELSE IF ~fs[path].exists THEN {PathOutcome(FR_NO_FILE, NoInfo, fs)}
    ELSE {PathOutcome(FR_OK, NoInfo, [fs EXCEPT ![path] = NoFile])}

\* FRESULT f_rename(old, new)
f_rename(a, fs, old_path, new_path) ==
    IF Arbitrary(a) THEN {PathOutcome(r, NoInfo, fs) : r \in FatSample}
    ELSE IF ~fs[old_path].exists \/ old_path = new_path
    THEN {PathOutcome(FR_NO_FILE, NoInfo, fs)}
    ELSE IF fs[new_path].exists THEN {PathOutcome(FR_EXIST, NoInfo, fs)}
    ELSE {PathOutcome(FR_OK, NoInfo,
                      [fs EXCEPT ![new_path] = fs[old_path], ![old_path] = NoFile])}

\* FRESULT f_stat(path, FILINFO*)
f_stat(a, fs, path) ==
    IF Arbitrary(a)
    THEN {PathOutcome(r, [name |-> "x", size |-> 1, isdir |-> FALSE], fs) : r \in FatSample}
    ELSE IF ~fs[path].exists THEN {PathOutcome(FR_NO_FILE, NoInfo, fs)}
    ELSE {PathOutcome(FR_OK, InfoOf(fs, path), fs)}

\* FRESULT f_mkdir(path)
f_mkdir(a, fs, path) ==
    IF Arbitrary(a) THEN {PathOutcome(r, NoInfo, fs) : r \in FatSample}
    ELSE IF fs[path].exists THEN {PathOutcome(FR_EXIST, NoInfo, fs)}
    ELSE {PathOutcome(FR_OK, NoInfo, [fs EXCEPT ![path] = NewDir])}

\* FRESULT f_getfree(path, DWORD* nclst, FATFS**)
f_getfree(a, fs) ==
    IF Arbitrary(a)
    THEN {[res |-> r, free_clusters |-> 1, fs |-> FatGeometry] : r \in FatSample}
    ELSE {[res |-> FR_OK, free_clusters |-> FatGeometry.n_fatent - 2 - Used(fs),
           fs |-> FatGeometry]}

(***************************************************************************)
(* LittleFSImpl::remove                                                    *)
(***************************************************************************)
LittleFSImpl_remove(a, path) ==
    /\ a \in LfsAdapters
    /\ UNCHANGED <<mounted_, fh, dh>>
    /\ IF ~mounted_[a]
       THEN /\ Done("remove", a, "none", PathArg(path, 0), "ERROR_NOT_MOUNTED", <<>>, NoOut)
            /\ UNCHANGED vol
       ELSE \E o \in lfs_remove(a, vol[a].files, path) :
            /\ vol' = [vol EXCEPT ![a].files = o.files]
            /\ Done("remove", a, "none", PathArg(path, 0), convert_lfs_error(o.res),
                    <<Call("lfs_remove", 0, o.res)>>, NoOut)

(***************************************************************************)
(* LittleFSImpl::rename                                                    *)
(***************************************************************************)
LittleFSImpl_rename(a, old_path, new_path) ==
    /\ a \in LfsAdapters
    /\ UNCHANGED <<mounted_, fh, dh>>
    /\ IF ~mounted_[a]
       THEN /\ Done("rename", a, "none", PathArg(old_path, 0), "ERROR_NOT_MOUNTED",
                    <<>>, NoOut)
            /\ UNCHANGED vol
       ELSE \E o \in lfs_rename(a, vol[a].files, old_path, new_path) :
            /\ vol' = [vol EXCEPT ![a].files = o.files]
            /\ Done("rename", a, "none", PathArg(old_path, 0), convert_lfs_error(o.res),
                    <<Call("lfs_rename", 0, o.res)>>, NoOut)

(***************************************************************************)
(* LittleFSImpl::stat                                                      *)
(***************************************************************************)
LittleFSImpl_stat(a, path) ==
    /\ a \in LfsAdapters
    /\ UNCHANGED <<mounted_, fh, dh, vol>>
    /\ IF ~mounted_[a]
       THEN Done("stat", a, "none", PathArg(path, 0), "ERROR_NOT_MOUNTED", <<>>, NoOut)
       ELSE \E o \in lfs_stat(a, vol[a].files, path) :
            IF o.res = LFS_ERR_OK
            THEN Done("stat", a, "none", PathArg(path, 0), "OK",
                      <<Call("lfs_stat", 0, o.res)>>,
                      InfoOut(BaseName(path), o.info.size, o.info.isdir, 0))
            ELSE Done("stat", a, "none", PathArg(path, 0), convert_lfs_error(o.res),
                      <<Call("lfs_stat", 0, o.res)>>, NoOut)

(***************************************************************************)
(* LittleFSImpl::mkdir                                                     *)
(***************************************************************************)
LittleFSImpl_mkdir(a, path) ==
    /\ a \in LfsAdapters
    /\ UNCHANGED <<mounted_, fh, dh>>
    /\ IF ~mounted_[a]
       THEN /\ Done("mkdir", a, "none", PathArg(path, 0), "ERROR_NOT_MOUNTED", <<>>, NoOut)
            /\ UNCHANGED vol
       ELSE \E o \in lfs_mkdir(a, vol[a].files, path) :
            /\ vol' = [vol EXCEPT ![a].files = o.files]
            /\ Done("mkdir", a, "none", PathArg(path, 0), convert_lfs_error(o.res),
                    <<Call("lfs_mkdir", 0, o.res)>>, NoOut)

(***************************************************************************)
(* LittleFSImpl::rmdir                                                     *)
(***************************************************************************)
LittleFSImpl_rmdir(a, path) ==
    /\ a \in LfsAdapters
    /\ UNCHANGED <<mounted_, fh, dh>>
    /\ IF ~mounted_[a]
       THEN /\ Done("rmdir", a, "none", PathArg(path, 0), "ERROR_NOT_MOUNTED", <<>>, NoOut)
            /\ UNCHANGED vol
       ELSE \E o \in lfs_remove(a, vol[a].files, path) :
            /\ vol' = [vol EXCEPT ![a].files = o.files]
            /\ Done("rmdir", a, "none", PathArg(path, 0), convert_lfs_error(o.res),
                    <<Call("lfs_remove", 0, o.res)>>, NoOut)

(***************************************************************************)
(* LittleFSImpl::get_free_space.  deref marks a read through config_.      *)
(***************************************************************************)
LittleFSImpl_get_free_space(a) ==
    /\ a \in LfsAdapters
    /\ UNCHANGED <<mounted_, fh, dh, vol>>
    /\ IF ~mounted_[a]
       THEN Done("get_free_space", a, "none", NoArg, "ERROR_NOT_MOUNTED", <<>>, NoOut)
       ELSE \E res \in lfs_fs_size(a, vol[a].files) :
            IF res >= 0
            THEN LET used_blocks == res
                     total_blocks == block_count
                     free_blocks == IF total_blocks > used_blocks
                                    THEN total_blocks - used_blocks ELSE 0
                 IN  Done("get_free_space", a, "none", NoArg, "OK",
                          <<Call("lfs_fs_size", 0, res), Call("deref config_", 0, 0)>>,
                          CountOut(uint64_t(uint64_t(free_blocks) * block_size), <<>>))
            ELSE Done("get_free_space", a, "none", NoArg, convert_lfs_error(res),
                      <<Call("lfs_fs_size", 0, res)>>, NoOut)

(***************************************************************************)
(* LittleFSImpl::get_total_space                                           *)
(***************************************************************************)
\* faulty variant: the total space is computed without the mounted test
LittleFSImpl_get_total_space_unguarded(a) ==
    /\ a \in LfsAdapters
    /\ UNCHANGED <<mounted_, fh, dh, vol>>
    /\ Done("get_total_space", a, "none", NoArg, "OK",
            <<Call("deref config_", 0, 0)>>,
            CountOut(uint64_t(uint64_t(block_count) * block_size), <<>>))

LittleFSImpl_get_total_space(a) ==
    /\ a \in LfsAdapters
    /\ UNCHANGED <<mounted_, fh, dh, vol>>
    /\ IF ~mounted_[a]
       THEN Done("get_total_space", a, "none", NoArg, "ERROR_NOT_MOUNTED", <<>>, NoOut)
       ELSE Done("get_total_space", a, "none", NoArg, "OK",
                 <<Call("deref config_", 0, 0)>>,
                 CountOut(uint64_t(uint64_t(block_count) * block_size), <<>>))

(***************************************************************************)
(* FatFSImpl::remove                                                       *)
(***************************************************************************)
FatFSImpl_remove(a, path) ==
    /\ a \in FatAdapters
    /\ UNCHANGED <<mounted_, fh, dh>>
    /\ IF ~mounted_[a]
       THEN /\ Done("remove", a, "none", PathArg(path, 0), "ERROR_NOT_MOUNTED", <<>>, NoOut)
            /\ UNCHANGED vol
       ELSE \E o \in f_unlink(a, vol[a].files, path) :
            /\ vol' = [vol EXCEPT ![a].files = o.files]
            /\ Done("remove", a, "none", PathArg(path, 0), convert_fatfs_error(o.res),
                    <<Call("f_unlink", 0, o.res)>>, NoOut)

(***************************************************************************)
(* FatFSImpl::rename                                                       *)
(***************************************************************************)
FatFSImpl_rename(a, old_path, new_path) ==
    /\ a \in FatAdapters
    /\ UNCHANGED <<mounted_, fh, dh>>
    /\ IF ~mounted_[a]
       THEN /\ Done("rename", a, "none", PathArg(old_path, 0), "ERROR_NOT_MOUNTED",
                    <<>>, NoOut)
            /\ UNCHANGED vol
       ELSE \E o \in f_rename(a, vol[a].files, old_path, new_path) :
            /\ vol' = [vol EXCEPT ![a].files = o.files]
            /\ Done("rename", a, "none", PathArg(old_path, 0), convert_fatfs_error(o.res),
                    <<Call("f_rename", 0, o.res)>>, NoOut)

(***************************************************************************)
(* FatFSImpl::stat                                                         *)
(***************************************************************************)
FatFSImpl_stat(a, path) ==
    /\ a \in FatAdapters
    /\ UNCHANGED <<mounted_, fh, dh, vol>>
    /\ IF ~mounted_[a]
       THEN Done("stat", a, "none", PathArg(path, 0), "ERROR_NOT_MOUNTED", <<>>, NoOut)
       ELSE \E o \in f_stat(a, vol[a].files, path) :
            IF o.res = FR_OK
            THEN Done("stat", a, "none", PathArg(path, 0), "OK",
                      <<Call("f_stat", 0, o.res)>>,
                      InfoOut(BaseName(path), o.info.size, o.info.isdir,
                              PackedTime(FatStamp)))
            ELSE Done("stat", a, "none", PathArg(path, 0), convert_fatfs_error(o.res),
                      <<Call("f_stat", 0, o.res)>>, NoOut)

(***************************************************************************)
(* FatFSImpl::mkdir                                                        *)
(***************************************************************************)
FatFSImpl_mkdir(a, path) ==
    /\ a \in FatAdapters
    /\ UNCHANGED <<mounted_, fh, dh>>
    /\ IF ~mounted_[a]
       THEN /\ Done("mkdir", a, "none", PathArg(path, 0), "ERROR_NOT_MOUNTED", <<>>, NoOut)
            /\ UNCHANGED vol
       ELSE \E o \in f_mkdir(a, vol[a].files, path) :
            /\ vol' = [vol EXCEPT ![a].files = o.files]
            /\ Done("mkdir", a, "none", PathArg(path, 0), convert_fatfs_error(o.res),
                    <<Call("f_mkdir", 0, o.res)>>, NoOut)

(***************************************************************************)
(* FatFSImpl::rmdir                                                        *)
(***************************************************************************)
FatFSImpl_rmdir(a, path) ==
    /\ a \in FatAdapters
    /\ UNCHANGED <<mounted_, fh, dh>>
    /\ IF ~mounted_[a]
       THEN /\ Done("rmdir", a, "none", PathArg(path, 0), "ERROR_NOT_MOUNTED", <<>>, NoOut)
            /\ UNCHANGED vol
       ELSE \E o \in f_unlink(a, vol[a].files, path) :
            /\ vol' = [vol EXCEPT ![a].files = o.files]
            /\ Done("rmdir", a, "none", PathArg(path, 0), convert_fatfs_error(o.res),
                    <<Call("f_unlink", 0, o.res)>>, NoOut)

(***************************************************************************)
(* FatFSImpl::get_free_space                                               *)
(***************************************************************************)
FatFSImpl_get_free_space(a) ==
    /\ a \in FatAdapters
    /\ UNCHANGED <<mounted_, fh, dh, vol>>
    /\ IF ~mounted_[a]
       THEN Done("get_free_space", a, "none", NoArg, "ERROR_NOT_MOUNTED", <<>>, NoOut)
       ELSE \E o \in f_getfree(a, vol[a].files) :
            IF o.res = FR_OK
            THEN Done("get_free_space", a, "none", NoArg, "OK",
                      <<Call("f_getfree", o.free_clusters, o.res)>>,
                      CountOut(uint64_t(uint64_t(uint64_t(o.free_clusters) * o.fs.csize)
                                        * 512), <<>>))
            ELSE Done("get_free_space", a, "none", NoArg, convert_fatfs_error(o.res),
                      <<Call("f_getfree", o.free_clusters, o.res)>>, NoOut)

(***************************************************************************)
(* FatFSImpl::get_total_space                                              *)
(***************************************************************************)
FatFSImpl_get_total_space(a) ==
    /\ a \in FatAdapters
    /\ UNCHANGED <<mounted_, fh, dh, vol>>
    /\ IF ~mounted_[a]
       THEN Done("get_total_space", a, "none", NoArg, "ERROR_NOT_MOUNTED", <<>>, NoOut)
       ELSE \E o \in f_getfree(a, vol[a].files) :
            IF o.res = FR_OK
            THEN LET total_clusters == o.fs.n_fatent - 2
                 IN  Done("get_total_space", a, "none", NoArg, "OK",
                          <<Call("f_getfree", o.free_clusters, o.res)>>,
                          CountOut(uint64_t(uint64_t(uint64_t(total_clusters) * o.fs.csize)
                                             * 512), <<>>))
            ELSE Done("get_total_space", a, "none", NoArg, convert_fatfs_error(o.res),
                      <<Call("f_getfree", o.free_clusters, o.res)>>, NoOut)

(***************************************************************************)
(* Specification Spec: four adapters over unmodelled media, one file       *)
(* handle and one directory handle passed to any of them in any order.     *)
(***************************************************************************)
NoCall == [op |-> "init", a |-> "none", h |-> "none", pre |-> ClosedHandle,
           preMounted |-> FALSE, arg |-> NoArg, ret |-> "OK", calls |-> <<>>,
           out |-> NoOut]

Init ==
    /\ mounted_ = [a \in Adapters |-> FALSE]
    /\ vol = [a \in Adapters |-> Unmodelled]
    /\ fh = [h \in FileHandles |-> ClosedHandle]
    /\ dh = [h \in DirHandles |-> ClosedHandle]
    /\ last = NoCall

\* the arguments the callers of Spec pass
Modes == {WRITE + CREATE}
Sizes == {1}
Writes == {<<1>>}
Offsets == {-1}
Origins == {1, 3}
DirPaths == {Root}

Next ==
    \E a \in Adapters, h \in FileHandles, g \in DirHandles :
        \/ LittleFSImpl_mount(a)
        \/ LittleFSImpl_unmount(a)
        \/ \E p \in Paths, m \in Modes : LittleFSImpl_open(a, h, p, m)
        \/ LittleFSImpl_close(a, h)
        \/ \E n \in Sizes : LittleFSImpl_read(a, h, n)
        \/ \E d \in Writes : LittleFSImpl_write(a, h, d)
        \/ \E off \in Offsets, org \in Origins : LittleFSImpl_seek(a, h, off, org)
        \/ LittleFSImpl_tell(a, h)
        \/ LittleFSImpl_sync(a, h)
        \/ \E n \in Sizes : LittleFSImpl_truncate(a, h, n)
        \/ \E p \in DirPaths : LittleFSImpl_opendir(a, g, p)
        \/ LittleFSImpl_closedir(a, g)
        \/ LittleFSImpl_readdir(a, g)
        \/ LittleFSImpl_rewinddir(a, g)
        \/ FatFSImpl_mount(a)
        \/ FatFSImpl_unmount(a)
        \/ \E p \in Paths, m \in Modes : FatFSImpl_open(a, h, p, m)
        \/ FatFSImpl_close(a, h)
        \/ \E n \in Sizes : FatFSImpl_read(a, h, n)
        \/ \E d \in Writes : FatFSImpl_write(a, h, d)
        \/ \E off \in Offsets, org \in Origins : FatFSImpl_seek(a, h, off, org)
        \/ FatFSImpl_tell(a, h)
        \/ FatFSImpl_sync(a, h)
        \/ \E n \in Sizes : FatFSImpl_truncate(a, h, n)
        \/ \E p \in DirPaths : FatFSImpl_opendir(a, g, p)
        \/ FatFSImpl_closedir(a, g)
        \/ FatFSImpl_readdir(a, g)
        \/ FatFSImpl_rewinddir(a, g)

Spec == Init /\ [][Next]_vars

(***************************************************************************)
(* Specification SpecRT: one adapter of each backend over a healthy        *)
(* medium whose files and contents are kept, and one file handle.  The     *)
(* flash medium starts formatted and empty, unformatted, or holding a      *)
(* file; the FAT volume starts empty or holding a file.  A mounted medium   *)
(* stays mounted.                                                          *)
(***************************************************************************)
UsedVolume ==
    [state |-> "ok", files |-> [p \in Paths |-> [NewFile EXCEPT !.data = <<1>>]]]

AdaptersRT == {"L1", "F1"}

InitRT ==
    /\ mounted_ = [a \in Adapters |-> FALSE]
    /\ vol \in {[a \in Adapters |-> IF a = "L1" THEN l
                                    ELSE IF a = "F1" THEN f ELSE Unmodelled] :
                  l \in {FreshVolume, BlankMedium, UsedVolume},
                  f \in {FreshVolume, UsedVolume}}
    /\ fh = [h \in FileHandles |-> ClosedHandle]
    /\ dh = [h \in DirHandles |-> ClosedHandle]
    /\ last = NoCall

\* the arguments the callers of SpecRT pass
ModesRT == {READ, WRITE + CREATE}
SizesRT == {1, MaxLen}
WritesRT == {<<1>>, <<0, 1>>}
OffsetsRT == {0}
OriginsRT == {0}
TruncatesRT == {0, 1}

NextRT ==
    \E a \in AdaptersRT, h \in FileHandles :
        \/ LittleFSImpl_mount(a)
        \/ \E p \in Paths, m \in ModesRT : LittleFSImpl_open(a, h, p, m)
        \/ LittleFSImpl_close(a, h)
        \/ \E n \in SizesRT : LittleFSImpl_read(a, h, n)
        \/ \E d \in WritesRT : LittleFSImpl_write(a, h, d)
        \/ \E off \in OffsetsRT, org \in OriginsRT : LittleFSImpl_seek(a, h, off, org)
        \/ LittleFSImpl_tell(a, h)
        \/ LittleFSImpl_sync(a, h)
        \/ \E n \in TruncatesRT : LittleFSImpl_truncate(a, h, n)
        \/ FatFSImpl_mount(a)
        \/ \E p \in Paths, m \in ModesRT : FatFSImpl_open(a, h, p, m)
        \/ FatFSImpl_close(a, h)
        \/ \E n \in SizesRT : FatFSImpl_read(a, h, n)
        \/ \E d \in WritesRT : FatFSImpl_write(a, h, d)
        \/ \E off \in OffsetsRT, org \in OriginsRT : FatFSImpl_seek(a, h, off, org)
        \/ FatFSImpl_tell(a, h)
        \/ FatFSImpl_sync(a, h)
        \/ \E n \in TruncatesRT : FatFSImpl_truncate(a, h, n)

SpecRT == InitRT /\ [][NextRT]_vars

(***************************************************************************)
(* Specification SpecNull: every operation of the flash adapter that was   *)
(* built with a null configuration, next to a FAT adapter through which    *)
(* the caller's handles can be opened and closed.                          *)
(***************************************************************************)
NextNull ==
    \E h \in FileHandles, g \in DirHandles, p \in Paths :
        \/ LittleFSImpl_mount("L0")
        \/ LittleFSImpl_unmount("L0")
        \/ \E m \in ModesRT : LittleFSImpl_open("L0", h, p, m)
        \/ LittleFSImpl_close("L0", h)
        \/ \E n \in Sizes : LittleFSImpl_read("L0", h, n)
        \/ \E d \in Writes : LittleFSImpl_write("L0", h, d)
        \/ \E off \in Offsets, org \in Origins : LittleFSImpl_seek("L0", h, off, org)
        \/ LittleFSImpl_tell("L0", h)
        \/ LittleFSImpl_sync("L0", h)
        \/ \E n \in Sizes : LittleFSImpl_truncate("L0", h, n)
        \/ LittleFSImpl_remove("L0", p)
        \/ LittleFSImpl_rename("L0", p, p)
        \/ LittleFSImpl_stat("L0", p)
        \/ LittleFSImpl_mkdir("L0", p)
        \/ LittleFSImpl_rmdir("L0", p)
        \/ \E q \in DirPaths : LittleFSImpl_opendir("L0", g, q)
        \/ LittleFSImpl_closedir("L0", g)
        \/ LittleFSImpl_readdir("L0", g)
        \/ LittleFSImpl_rewinddir("L0", g)
        \/ LittleFSImpl_get_free_space("L0")
        \/ LittleFSImpl_get_total_space("L0")
        \/ FatFSImpl_mount("F1")
        \/ \E m \in ModesRT : FatFSImpl_open("F1", h, p, m)
        \/ FatFSImpl_close("F1", h)
        \/ \E q \in DirPaths : FatFSImpl_opendir("F1", g, q)
        \/ FatFSImpl_closedir("F1", g)

SpecNull == Init /\ [][NextNull]_vars

(***************************************************************************)
(* Specification SpecOpen: open with every combination of the six          *)
(* OpenMode bits, through one adapter of each backend, each over a healthy *)
(* medium that holds a file.                                               *)
(***************************************************************************)
AllModes == 0..(2 * APPEND - 1)

InitOpen ==
    /\ mounted_ = [a \in Adapters |-> FALSE]
    /\ vol = [a \in Adapters |-> IF a \in AdaptersRT THEN UsedVolume ELSE Unmodelled]
    /\ fh = [h \in FileHandles |-> ClosedHandle]
    /\ dh = [h \in DirHandles |-> ClosedHandle]
    /\ last = NoCall

NextOpen ==
    \E a \in AdaptersRT, h \in FileHandles, p \in Paths :
        \/ LittleFSImpl_mount(a)
        \/ \E m \in AllModes : LittleFSImpl_open(a, h, p, m)
        \/ LittleFSImpl_close(a, h)
        \/ FatFSImpl_mount(a)
        \/ \E m \in AllModes : FatFSImpl_open(a, h, p, m)
        \/ FatFSImpl_close(a, h)

SpecOpen == InitOpen /\ [][NextOpen]_vars

(***************************************************************************)
(* LittleFSImpl::~LittleFSImpl and FatFSImpl::~FatFSImpl: unmount() when   *)
(* still mounted.  A destructor returns nothing ("void"); the result of    *)
(* the unmount is dropped.  The adapter's name then stands for an adapter  *)
(* constructed anew in its place, which is unmounted.                      *)
(***************************************************************************)
\* faulty variant: the destructor releases nothing
LittleFSImpl_destructor_leaves_mounted(a) ==
    /\ a \in LfsAdapters
    /\ UNCHANGED <<mounted_, vol, fh, dh>>
    /\ Done("~LittleFSImpl", a, "none", NoArg, "void", <<>>, NoOut)

LittleFSImpl_destructor(a) ==
    /\ a \in LfsAdapters
    /\ UNCHANGED <<vol, fh, dh>>
    /\ IF mounted_[a]
       THEN \E res \in lfs_unmount(vol[a]) :
            /\ mounted_' = [mounted_ EXCEPT ![a] = FALSE]
            /\ Done("~LittleFSImpl", a, "none", NoArg, "void",
                    <<Call("lfs_unmount", 0, res)>>, NoOut)
       ELSE /\ Done("~LittleFSImpl", a, "none", NoArg, "void", <<>>, NoOut)
            /\ UNCHANGED mounted_

FatFSImpl_destructor(a) ==
    /\ a \in FatAdapters
    /\ UNCHANGED <<vol, fh, dh>>
    /\ IF mounted_[a]
       THEN \E res \in f_unmount(vol[a]) :
            /\ mounted_' = [mounted_ EXCEPT ![a] = FALSE]
            /\ Done("~FatFSImpl", a, "none", NoArg, "void",
                    <<Call("f_mount", 0, res)>>, NoOut)
       ELSE /\ Done("~FatFSImpl", a, "none", NoArg, "void", <<>>, NoOut)
            /\ UNCHANGED mounted_

(***************************************************************************)
(* Specification SpecPath: the operations that take a path and the         *)
(* directory operations, with mount and unmount, through one adapter of    *)
(* each backend over a healthy medium that holds a file.                   *)
(***************************************************************************)
NextPath ==
    \E a \in AdaptersRT, h \in FileHandles, g \in DirHandles, p \in Paths :
        \/ LittleFSImpl_mount(a)
        \/ LittleFSImpl_unmount(a)
        \/ \E m \in Modes : LittleFSImpl_open(a, h, p, m)
        \/ \E q \in DirPaths : LittleFSImpl_opendir(a, g, q)
        \/ LittleFSImpl_closedir(a, g)
        \/ LittleFSImpl_readdir(a, g)
        \/ LittleFSImpl_rewinddir(a, g)
        \/ LittleFSImpl_remove(a, p)
        \/ LittleFSImpl_rename(a, p, p)
        \/ LittleFSImpl_stat(a, p)
        \/ LittleFSImpl_mkdir(a, p)
        \/ LittleFSImpl_rmdir(a, p)
        \/ LittleFSImpl_get_free_space(a)
        \/ LittleFSImpl_get_total_space(a)
        \/ FatFSImpl_mount(a)
        \/ FatFSImpl_unmount(a)
        \/ \E m \in Modes : FatFSImpl_open(a, h, p, m)
        \/ \E q \in DirPaths : FatFSImpl_opendir(a, g, q)
        \/ FatFSImpl_closedir(a, g)
        \/ FatFSImpl_readdir(a, g)
        \/ FatFSImpl_rewinddir(a, g)
        \/ FatFSImpl_remove(a, p)
        \/ FatFSImpl_rename(a, p, p)
        \/ FatFSImpl_stat(a, p)
        \/ FatFSImpl_mkdir(a, p)
        \/ FatFSImpl_rmdir(a, p)
        \/ FatFSImpl_get_free_space(a)
        \/ FatFSImpl_get_total_space(a)
        \/ LittleFSImpl_destructor(a)
        \/ FatFSImpl_destructor(a)

SpecPath == InitOpen /\ [][NextPath]_vars

(***************************************************************************)
(* Specification SpecSpace: the space queries of both adapters, mounted    *)
(* and not, over media that report their usage and over media whose        *)
(* backend reports anything (a usage above the block count included).      *)
(***************************************************************************)
NextSpace ==
    \E a \in Adapters :
        \/ LittleFSImpl_mount(a)
        \/ LittleFSImpl_get_free_space(a)
        \/ LittleFSImpl_get_total_space(a)
        \/ FatFSImpl_mount(a)
        \/ FatFSImpl_get_free_space(a)
        \/ FatFSImpl_get_total_space(a)

SpecSpace == (Init \/ InitOpen) /\ [][NextSpace]_vars

(***************************************************************************)
(* FatFSImpl::FatFSImpl(const char* drive_path).  A C string is the        *)
(* sequence of its characters before the terminator; the argument is a     *)
(* record that tells a null pointer from a string.                         *)
(***************************************************************************)
\* sizeof(drive_path_)
DrivePathSize == 8

\* faulty variant: a string as long as the buffer is copied
drive_path_off_by_one(drive_path) ==
    IF ~drive_path.null /\ Len(drive_path.str) <= DrivePathSize
    THEN drive_path.str
    ELSE <<"0", ":">>

\* the string the constructor leaves in drive_path_
drive_path_(drive_path) ==
    IF ~drive_path.null /\ Len(drive_path.str) < DrivePathSize
    THEN drive_path.str
    ELSE <<"0", ":">>

\* the longest drive identifier supplied
MaxPathLen == 9

(***************************************************************************)
(* Specification SpecPure: the functions of the adapters that compute a    *)
(* result from their arguments alone, each applied to every input of a     *)
(* bounded set.  An input is held in `last` until its function is applied. *)
(*   - the two error translators, on every native status code of a range   *)
(*     that holds all the codes either backend defines and codes neither   *)
(*     defines;                                                            *)
(*   - the position computation of FatFSImpl::seek, on every offset, every *)
(*     origin and positions and sizes up to the largest FSIZE_t;           *)
(*   - the constructor of the FAT adapter, on a null pointer and on        *)
(*     strings shorter than, as long as and longer than its buffer.        *)
(***************************************************************************)
\* the magnitude of the most negative code applied
MaxNegative == 90
MaxNative == 25
NativeCodes == -MaxNegative..MaxNative

InitPure ==
    /\ mounted_ = [a \in Adapters |-> FALSE]
    /\ vol = [a \in Adapters |-> Unmodelled]
    /\ fh = [h \in FileHandles |-> ClosedHandle]
    /\ dh = [h \in DirHandles |-> ClosedHandle]
    /\ last \in
         {[NoCall EXCEPT !.op = "native code", !.arg.n = c] : c \in NativeCodes}
         \cup
         {[NoCall EXCEPT !.op = "seek input", !.arg = SizeArg(offset, origin),
                         !.calls = <<Call("f_tell", 0, pos), Call("f_size", 0, size),
                                     Call("bits of FSIZE_t", 0, bits)>>] :
            offset \in -Exp2(IntBits - 1)..(Exp2(IntBits - 1) - 1),
            origin \in 0..2,
            pos \in 0..(Exp2(IntBits) - 1) \cup {Exp2(2 * IntBits) - 1},
            size \in 0..(Exp2(IntBits) - 1) \cup {Exp2(2 * IntBits) - 1},
            bits \in FsizeBits}
         \cup
         {[NoCall EXCEPT !.op = "drive_path", !.a = "F1",
                         !.arg.path = IF null THEN NULL ELSE "",
                         !.arg.data = str] :
            null \in BOOLEAN,
            str \in {[i \in 1..n |-> c] : n \in 0..MaxPathLen, c \in {"1", ":"}}
                    \cup {<<"0", ":">>, <<"1", ":">>}}

LittleFSImpl_convert_lfs_error ==
    /\ last.op = "native code"
    /\ last' = [last EXCEPT !.op = "convert_lfs_error",
                            !.ret = convert_lfs_error(last.arg.n)]
    /\ UNCHANGED <<mounted_, vol, fh, dh>>

FatFSImpl_convert_fatfs_error ==
    /\ last.op = "native code"
    /\ last' = [last EXCEPT !.op = "convert_fatfs_error",
                            !.ret = convert_fatfs_error(last.arg.n)]
    /\ UNCHANGED <<mounted_, vol, fh, dh>>

\* the switch of FatFSImpl::seek on the results of its two queries
FatFSImpl_seek_new_pos ==
    /\ last.op = "seek input"
    /\ last.calls[1].res <= last.calls[2].res
    /\ last.calls[2].res < Exp2(last.calls[3].res)
    /\ \E new_pos \in seek_new_pos(last.arg.mode, last.arg.n, last.calls[1].res,
                                   last.calls[2].res, last.calls[3].res) :
          last' = [last EXCEPT !.op = "seek new_pos", !.out.n = new_pos]
    /\ UNCHANGED <<mounted_, vol, fh, dh>>

\* the constructor: the drive identifier is stored, mounted_ is false
FatFSImpl_FatFSImpl ==
    /\ last.op = "drive_path"
    /\ mounted_' = [mounted_ EXCEPT ![last.a] = FALSE]
    /\ last' = [last EXCEPT !.op = "FatFSImpl",
                            !.out.data = drive_path_([null |-> last.arg.path = NULL,
                                                      str |-> last.arg.data])]
    /\ UNCHANGED <<vol, fh, dh>>

NextPure ==
    \/ LittleFSImpl_convert_lfs_error
    \/ FatFSImpl_convert_fatfs_error
    \/ FatFSImpl_seek_new_pos
    \/ FatFSImpl_FatFSImpl

SpecPure == InitPure /\ [][NextPure]_vars

(***************************************************************************)
(* Properties.  `last` is the call just made: last.pre is the handle as it *)
(* was passed in, Now the same handle as the call left it.  In an action   *)
(* formula the unprimed variables are the state the call last' started in. *)
(***************************************************************************)
OpenOps == {"open", "opendir"}
CloseOps == {"close", "closedir"}
FileOps == {"read", "write", "seek", "tell", "sync", "truncate"}
HandleOps == FileOps \cup CloseOps \cup {"readdir", "rewinddir"}

Now == HandleOf(last.h)

\* the abstract result the adapter `a` gives for the native code `res`
Translated(a, res) ==
    IF a \in LfsAdapters THEN convert_lfs_error(res) ELSE convert_fatfs_error(res)

\* the call was turned away before any backend call
RejectedAs(code) == last.ret = code /\ last.calls = <<>>

NoOwner(handle) == ~handle.is_open /\ handle.fs_impl = NULL

(***************************************************************************)
(* C1: a successful open / opendir through adapter A leaves the handle     *)
(* open with fs_impl = A; while the handle stays open its fs_impl does not *)
(* change; and every read, write, seek, tell, sync, truncate, close,       *)
(* readdir, rewinddir or closedir of an open handle through an adapter     *)
(* other than the one in fs_impl returns ERROR_BAD_FILE.                   *)
(***************************************************************************)
C1_HandleBelongsToOpener ==
    [][ /\ (last'.op \in OpenOps /\ last'.ret = "OK")
            => (Now'.is_open /\ Now'.fs_impl = last'.a)
        /\ \A h \in FileHandles \cup DirHandles :
              (HandleOf(h).is_open /\ HandleOf(h)'.is_open)
                  => HandleOf(h)'.fs_impl = HandleOf(h).fs_impl
        /\ (last'.op \in HandleOps /\ last'.pre.is_open /\ last'.pre.fs_impl # last'.a)
            => last'.ret = "ERROR_BAD_FILE" ]_vars

\* a handle opened through one FAT adapter was passed to the other FAT adapter
C1_Witness ==
    /\ last.op \in HandleOps
    /\ last.pre.is_open
    /\ last.pre.fs_impl = "F1"
    /\ last.a = "F2"
    /\ last.ret = "ERROR_BAD_FILE"

(***************************************************************************)
(* C2: a handle operation on a handle that is not open (never opened, or   *)
(* closed again) returns ERROR_BAD_FILE and leaves the handle closed, with *)
(* is_open false and fs_impl null.                                         *)
(***************************************************************************)
C2_ClosedHandleRejected ==
    (last.op \in HandleOps /\ ~last.pre.is_open)
        => (last.ret = "ERROR_BAD_FILE" /\ NoOwner(last.pre) /\ NoOwner(Now))

\* close, through a mounted adapter, of a handle that is not open
C2_Witness ==
    /\ last.op = "close"
    /\ ~last.pre.is_open
    /\ last.pre.nat = NoNative
    /\ last.ret = "ERROR_BAD_FILE"
    /\ mounted_[last.a]

(***************************************************************************)
(* C3, as stated: open / opendir of a handle that is already marked open   *)
(* fails with ERROR_BAD_FILE whether the adapter is mounted or not, calls  *)
(* no backend function and leaves the handle as it was.                    *)
(***************************************************************************)
C3_AsStated ==
    (last.op \in OpenOps /\ last.pre.is_open)
        => (RejectedAs("ERROR_BAD_FILE") /\ Now = last.pre)

(***************************************************************************)
(* C3, amended: open / opendir of a handle that is already marked open     *)
(* fails without a backend call and leaves the handle as it was; the       *)
(* result is ERROR_BAD_FILE when the adapter is mounted and                *)
(* ERROR_NOT_MOUNTED when it is not.                                       *)
(***************************************************************************)
C3_OpenHandleRefused ==
    (last.op \in OpenOps /\ last.pre.is_open)
        => /\ Now = last.pre
           /\ IF last.preMounted THEN RejectedAs("ERROR_BAD_FILE")
              ELSE RejectedAs("ERROR_NOT_MOUNTED")

\* an open handle was passed to open of an adapter that is not mounted
C3_Witness ==
    /\ last.op = "open"
    /\ last.pre.is_open
    /\ ~last.preMounted
    /\ last.ret = "ERROR_NOT_MOUNTED"

(***************************************************************************)
(* C4: open / opendir of a closed handle through a mounted adapter makes   *)
(* one backend call; if it succeeds the result is OK and the handle is     *)
(* open with fs_impl = the adapter, and if it fails the result is the      *)
(* translated error and the handle is still closed with no owner.          *)
(***************************************************************************)
C4_OpenStampsOnSuccess ==
    (last.op \in OpenOps /\ last.preMounted /\ ~last.pre.is_open)
        => /\ Len(last.calls) = 1
           /\ IF last.calls[1].res = 0
              THEN last.ret = "OK" /\ Now.is_open /\ Now.fs_impl = last.a
              ELSE /\ last.ret = Translated(last.a, last.calls[1].res)
                   /\ last.ret # "OK"
                   /\ NoOwner(last.pre)
                   /\ NoOwner(Now)

\* the backend refused the open
C4_Witness ==
    /\ last.op = "opendir"
    /\ last.preMounted
    /\ ~last.pre.is_open
    /\ Len(last.calls) = 1
    /\ last.calls[1].res # 0
    /\ NoOwner(Now)

(***************************************************************************)
(* C5: close / closedir of an open handle through its own adapter makes    *)
(* one backend call, returns its translated result and leaves the handle   *)
(* closed with no owner whether or not that call succeeded; an open /      *)
(* opendir of the same handle that follows is not turned away with         *)
(* ERROR_BAD_FILE.                                                         *)
(***************************************************************************)
C5_CloseAlwaysClears ==
    [][ /\ (last'.op \in CloseOps /\ last'.pre.is_open /\ last'.pre.fs_impl = last'.a)
            => /\ NoOwner(Now')
               /\ Len(last'.calls) = 1
               /\ last'.ret = Translated(last'.a, last'.calls[1].res)
        /\ (/\ last.op \in CloseOps /\ last.pre.is_open /\ last.pre.fs_impl = last.a
            /\ last'.op \in OpenOps /\ last'.h = last.h)
            => ~(last'.ret = "ERROR_BAD_FILE" /\ last'.calls = <<>>) ]_vars

\* the backend failed to close the file and the handle is closed all the same
C5_Witness ==
    /\ last.op = "close"
    /\ last.pre.is_open
    /\ last.pre.fs_impl = last.a
    /\ last.a \in LfsAdapters
    /\ last.ret # "OK"
    /\ NoOwner(Now)

(***************************************************************************)
(* C6: read, write, seek, tell, sync or truncate of a handle that is not   *)
(* open or belongs to another adapter returns ERROR_BAD_FILE without any   *)
(* backend call (the FAT adapter's position and size queries included)     *)
(* and changes neither the handles nor the media.                          *)
(***************************************************************************)
C6_CheckComesFirst ==
    [][ (/\ last'.op \in FileOps
         /\ (~fh[last'.h].is_open \/ fh[last'.h].fs_impl # last'.a))
            => /\ last'.ret = "ERROR_BAD_FILE"
               /\ last'.calls = <<>>
               /\ last'.out = NoOut
               /\ UNCHANGED <<fh, dh, vol, mounted_>> ]_vars

\* seek through the FAT adapter of a handle the flash adapter had opened
C6_Witness ==
    /\ last.op = "seek"
    /\ last.a = "F1"
    /\ last.pre.is_open
    /\ last.pre.fs_impl = "L1"
    /\ last.calls = <<>>
    /\ vol["F1"] = UsedVolume

CallsTo(fn) == Cardinality({i \in 1..Len(last.calls) : last.calls[i].fn = fn})

C8_MountUnmountIdempotent ==
    [][ (\/ last'.op = "mount" /\ mounted_[last'.a]
         \/ last'.op = "unmount" /\ ~mounted_[last'.a])
            => /\ last'.ret = "OK"
               /\ last'.calls = <<>>
               /\ UNCHANGED <<mounted_, vol, fh, dh>> ]_vars

\* unmount of a FAT adapter that is not mounted
C8_Witness ==
    /\ last.op = "unmount"
    /\ last.a \in FatAdapters
    /\ ~last.preMounted
    /\ last.ret = "OK"
    /\ last.calls = <<>>

(***************************************************************************)
(* C9, as stated: every operation of a flash adapter built with a null     *)
(* configuration fails with ERROR_INVALID, and none reads through the      *)
(* configuration pointer.                                                  *)
(***************************************************************************)
C9_NullConfigAlwaysInvalid ==
    (last.op # "init" /\ last.a \in LfsAdapters /\ config_(last.a) = NULL)
        => /\ last.ret = "ERROR_INVALID"
           /\ \A i \in 1..Len(last.calls) :
                 last.calls[i].fn \notin {"deref config_", "lfs_mount", "lfs_format"}

\* what such an operation needs of the medium: mounted, healthy
Healthy(a) == mounted_[a] /\ vol[a].state = "ok"

\* the backend flags a handle carries after open(mode) through adapter a
AccOf(a, mode) ==
    IF a \in LfsAdapters THEN lfs_convert_open_mode(mode)
    ELSE fat_convert_open_mode(mode)

(***************************************************************************)
(* C10, as stated: on a mounted file system of either backend, for a path  *)
(* that does not exist, open with WRITE|CREATE succeeds; writing N bytes   *)
(* through that handle succeeds with bytes_written = N and stores the      *)
(* bytes; close succeeds; open with READ of the file succeeds; and reading *)
(* N bytes succeeds with bytes_read = N and yields the bytes stored.       *)
(***************************************************************************)
C10_RoundTrip ==
    [][ LET c == last'
            a == c.a
            f == fh[c.h]
            own == f.is_open /\ f.fs_impl = a
        IN  /\ (/\ c.op = "open" /\ Healthy(a) /\ ~f.is_open
                /\ c.arg.mode = WRITE + CREATE
                /\ ~vol[a].files[c.arg.path].exists)
                => c.ret = "OK"
            /\ (/\ c.op = "write" /\ Healthy(a) /\ own
                /\ f.nat.acc = AccOf(a, WRITE + CREATE)
                /\ f.nat.pos + c.arg.n <= MaxLen)
                => /\ c.ret = "OK"
                   /\ c.out.n = c.arg.n
                   /\ ReadAt(vol'[a].files[f.nat.path].data, f.nat.pos, c.arg.n)
                        = c.arg.data
            /\ (c.op = "close" /\ Healthy(a) /\ own) => c.ret = "OK"
            /\ (/\ c.op = "open" /\ Healthy(a) /\ ~f.is_open
                /\ c.arg.mode = READ
                /\ vol[a].files[c.arg.path].exists)
                => c.ret = "OK"
            /\ (/\ c.op = "read" /\ Healthy(a) /\ own
                /\ f.nat.acc = AccOf(a, READ)
                /\ f.nat.pos + c.arg.n <= Len(vol[a].files[f.nat.path].data))
                => /\ c.ret = "OK"
                   /\ c.out.n = c.arg.n
                   /\ c.out.data
                        = ReadAt(vol[a].files[f.nat.path].data, f.nat.pos, c.arg.n) ]_vars

\* the OpenMode value `mode` has the bit `flag`
Has(mode, flag) == BitAnd(mode, flag) # 0

(***************************************************************************)
(* C11, as stated: on either backend, open with a mode that contains       *)
(* CREATE and EXCL (and any of the other bits) of a path that exists       *)
(* returns ERROR_EXIST and leaves the handle closed.                       *)
(***************************************************************************)
C11_ExclusiveCreateRefusesExisting ==
    [][ (/\ last'.op = "open" /\ Healthy(last'.a) /\ ~fh[last'.h].is_open
         /\ Has(last'.arg.mode, CREATE) /\ Has(last'.arg.mode, EXCL)
         /\ vol[last'.a].files[last'.arg.path].exists)
            => (last'.ret = "ERROR_EXIST" /\ NoOwner(Now')) ]_vars

(***************************************************************************)
(* C12, as stated: the flag word LittleFSImpl::open passes to              *)
(* lfs_file_open has LFS_O_CREAT iff the mode has CREATE, LFS_O_EXCL iff   *)
(* it has CREATE and EXCL, LFS_O_TRUNC iff it has TRUNC and LFS_O_APPEND   *)
(* iff it has APPEND.                                                      *)
(***************************************************************************)
C12_FlashModeTranslationLossless ==
    (last.op = "open" /\ last.a \in LfsAdapters /\ Len(last.calls) = 1)
        => LET word == last.calls[1].arg
               mode == last.arg.mode
           IN  /\ Has(word, LFS_O_CREAT) <=> Has(mode, CREATE)
               /\ Has(word, LFS_O_EXCL) <=> (Has(mode, CREATE) /\ Has(mode, EXCL))
               /\ Has(word, LFS_O_TRUNC) <=> Has(mode, TRUNC)
               /\ Has(word, LFS_O_APPEND) <=> Has(mode, APPEND)

(***************************************************************************)
(* C13: for every mode, the flag word either adapter passes to its backend *)
(* open has exactly the access flag of the mode: read-only for READ        *)
(* without WRITE, write-only for WRITE without READ, read-write for both,  *)
(* and no access flag for neither.                                         *)
(***************************************************************************)
C13_AccessFlagFollowsMode ==
    (last.op = "open" /\ Len(last.calls) = 1)
        => LET word == last.calls[1].arg
               r == Has(last.arg.mode, READ)
               w == Has(last.arg.mode, WRITE)
           IN  IF last.a \in LfsAdapters
               THEN BitAnd(word, LFS_O_RDWR)
                      = (IF r /\ ~w THEN LFS_O_RDONLY
                         ELSE IF w /\ ~r THEN LFS_O_WRONLY
                         ELSE IF r /\ w THEN LFS_O_RDWR ELSE 0)
               ELSE BitAnd(word, FA_READ + FA_WRITE)
                      = (IF r /\ ~w THEN FA_READ
                         ELSE IF w /\ ~r THEN FA_WRITE
                         ELSE IF r /\ w THEN FA_READ + FA_WRITE ELSE 0)

\* the flash adapter passed read-write for READ | WRITE | CREATE | APPEND
C13_Witness ==
    /\ last.op = "open"
    /\ last.a = "L1"
    /\ last.arg.mode = READ + WRITE + CREATE + APPEND
    /\ Len(last.calls) = 1
    /\ BitAnd(last.calls[1].arg, LFS_O_RDWR) = LFS_O_RDWR

(***************************************************************************)
(* C14: FatFSImpl::open of a closed handle on a mounted adapter with a     *)
(* mode that has neither READ nor WRITE is not refused by the adapter: it  *)
(* calls f_open once, with a flag byte that has neither FA_READ nor        *)
(* FA_WRITE, and returns the translation of what f_open returned.          *)
(***************************************************************************)
C14_FatForwardsModeWithoutAccess ==
    (/\ last.op = "open" /\ last.a \in FatAdapters /\ last.preMounted
     /\ ~last.pre.is_open /\ ~Has(last.arg.mode, READ) /\ ~Has(last.arg.mode, WRITE))
        => /\ Len(last.calls) = 1
           /\ last.calls[1].fn = "f_open"
           /\ BitAnd(last.calls[1].arg, FA_READ + FA_WRITE) = 0
           /\ last.ret = convert_fatfs_error(last.calls[1].res)

\* open with mode 0 went to the backend, which opened the file
C14_Witness ==
    /\ last.op = "open"
    /\ last.a = "F1"
    /\ last.arg.mode = 0
    /\ Len(last.calls) = 1
    /\ last.calls[1].arg = 0
    /\ last.ret = "OK"
    /\ Now.is_open

\* enum class FSResult
FSResults ==
    {"OK", "ERROR_IO", "ERROR_CORRUPT", "ERROR_NO_ENT", "ERROR_EXIST", "ERROR_NOT_DIR",
     "ERROR_IS_DIR", "ERROR_NO_EMPTY", "ERROR_BAD_FILE", "ERROR_FB_BIG", "ERROR_NO_SPC",
     "ERROR_NO_MEM", "ERROR_INVALID", "ERROR_NOT_MOUNTED", "ERROR_NOT_SUPPORTED"}

\* the native codes each translator names in a case label
LfsNamed ==
    {LFS_ERR_OK, LFS_ERR_IO, LFS_ERR_CORRUPT, LFS_ERR_NOENT, LFS_ERR_EXIST,
     LFS_ERR_NOTDIR, LFS_ERR_ISDIR, LFS_ERR_NOTEMPTY, LFS_ERR_BADF, LFS_ERR_FBIG,
     LFS_ERR_NOSPC, LFS_ERR_NOMEM, LFS_ERR_INVAL}
FatNamed == FR_OK..FR_INVALID_PARAMETER

(***************************************************************************)
(* C15: each translator returns one FSResult for every native code,        *)
(* returns OK only for the native success code and ERROR_IO for every code *)
(* it does not name; the FAT translator maps not-enough-core and           *)
(* too-many-open-files to ERROR_NO_MEM, disk-error, not-ready and timeout  *)
(* to ERROR_IO, internal-error and no-filesystem to ERROR_CORRUPT, and     *)
(* denied, write-protected and locked to ERROR_INVALID.                    *)
(***************************************************************************)
C15_TranslatorsTotalAndConservative ==
    LET code == last.arg.n IN
    /\ last.op = "convert_lfs_error"
        => /\ last.ret \in FSResults
           /\ (last.ret = "OK") <=> (code = LFS_ERR_OK)
           /\ (code \notin LfsNamed) => last.ret = "ERROR_IO"
    /\ last.op = "convert_fatfs_error"
        => /\ last.ret \in FSResults
           /\ (last.ret = "OK") <=> (code = FR_OK)
           /\ (code \notin FatNamed) => last.ret = "ERROR_IO"
           /\ (code \in {FR_NOT_ENOUGH_CORE, FR_TOO_MANY_OPEN_FILES})
                => last.ret = "ERROR_NO_MEM"
           /\ (code \in {FR_DISK_ERR, FR_NOT_READY, FR_TIMEOUT}) => last.ret = "ERROR_IO"
           /\ (code \in {FR_INT_ERR, FR_NO_FILESYSTEM}) => last.ret = "ERROR_CORRUPT"
           /\ (code \in {FR_DENIED, FR_WRITE_PROTECTED, FR_LOCKED})
                => last.ret = "ERROR_INVALID"

\* a positive code, which the flash backend does not define, became ERROR_IO
C15_Witness ==
    /\ last.op = "convert_lfs_error"
    /\ last.arg.n = MaxNative
    /\ last.ret = "ERROR_IO"

(***************************************************************************)
(* C16: for every offset of the signed type, the most negative one         *)
(* included, the position FatFSImpl::seek hands to the native absolute     *)
(* seek is base + offset computed without wrap-around (base 0 for SET, the *)
(* queried position for CUR, the queried size for END), and 0 when that    *)
(* sum is negative.                                                        *)
(* Violated: with an FSIZE_t as wide as the offset, a position in the      *)
(* upper half of its range plus a positive offset wraps around; and the    *)
(* negation of the most negative offset overflows.                         *)
(***************************************************************************)
C16_SeekTargetIsClampedSum ==
    last.op = "seek new_pos" =>
        LET base == IF last.arg.mode = 0 THEN 0
                    ELSE IF last.arg.mode = 1 THEN last.calls[1].res
                    ELSE last.calls[2].res
            target == base + last.arg.n
        IN  last.out.n = IF target < 0 THEN 0 ELSE target

\* the same, for the offsets whose negation is defined and the sums that
\* fit in FSIZE_t: this much holds
C16_SeekTargetInRange ==
    (/\ last.op = "seek new_pos"
     /\ last.arg.n # -Exp2(IntBits - 1)
     /\ last.calls[2].res + Exp2(IntBits - 1) - 1 < Exp2(last.calls[3].res)) =>
        LET base == IF last.arg.mode = 0 THEN 0
                    ELSE IF last.arg.mode = 1 THEN last.calls[1].res
                    ELSE last.calls[2].res
            target == base + last.arg.n
        IN  last.out.n = IF target < 0 THEN 0 ELSE target

C18_FailedTruncateChangesNothing ==
    [][(/\ last'.op = "truncate"
        /\ last'.a \in FatAdapters
        /\ last'.ret # "OK"
        /\ Healthy(last'.a)) =>
           /\ fh'[last'.h].nat.pos = fh[last'.h].nat.pos
           /\ \A p \in Paths :
                 Len(vol'[last'.a].files[p].data) = Len(vol[last'.a].files[p].data)]_vars

\* the backend call c, made through adapter a, reported a failure: a negative
\* value from the flash backend, an FRESULT other than FR_OK from the FAT
\* backend (f_tell and f_size return a position and a size, not an FRESULT)
Failed(a, c) ==
    IF a \in LfsAdapters THEN c.fn # "deref config_" /\ c.res < 0
    ELSE c.fn \notin {"f_tell", "f_size"} /\ c.res # FR_OK

\* the one failure the adapters may hide: the first lfs_mount of
\* LittleFSImpl::mount reporting a corrupt medium
FirstCorruptMount(i) ==
    /\ last.op = "mount"
    /\ last.a \in LfsAdapters
    /\ i = 1
    /\ last.calls[i].res = LFS_ERR_CORRUPT

(***************************************************************************)
(* C19: whenever a backend call made during an operation reports a         *)
(* failure, the operation returns the translation of that code, which is   *)
(* not OK; the only exception is the first corrupt result in the mount of  *)
(* the flash adapter.                                                      *)
(* Violated: FatFSImpl::truncate returns OK when the seek that restores    *)
(* the position fails.                                                     *)
(***************************************************************************)
C19_NoFailureSuppressed ==
    \A i \in 1..Len(last.calls) :
        (Failed(last.a, last.calls[i]) /\ ~FirstCorruptMount(i)) =>
            /\ last.ret # "OK"
            /\ last.ret = Translated(last.a, last.calls[i].res)

\* the same with the restoring seek of FatFSImpl::truncate set aside: no
\* other call of the operations of Spec has its failure hidden
C19_OnlyTheRestoringSeek ==
    \A i \in 1..Len(last.calls) :
        (/\ Failed(last.a, last.calls[i])
         /\ ~FirstCorruptMount(i)
         /\ ~(last.op = "truncate" /\ last.a \in FatAdapters /\ i = 4)) =>
            /\ last.ret # "OK"
            /\ last.ret = Translated(last.a, last.calls[i].res)

Listing(a, fs, path) ==
    IF a \in LfsAdapters
    THEN IF path = Root THEN LfsListing(fs) ELSE <<".", "..">>
    ELSE IF path = Root THEN Entries(fs) ELSE <<>>

(***************************************************************************)
(* C21: readdir on an open directory handle of the adapter returns a       *)
(* result other than OK exactly when the backend read reports a failure;   *)
(* on a healthy medium it returns OK with the name of the next entry, and  *)
(* OK with an empty name once the entries are exhausted; a readdir that    *)
(* follows a successful rewinddir of the same handle returns the first     *)
(* entry again.                                                            *)
(***************************************************************************)
C21_ReaddirEndsWithEmptyName ==
    [][(last'.op = "readdir" /\ last'.calls # <<>>) =>
         /\ (last'.ret # "OK") <=> Failed(last'.a, last'.calls[1])
         /\ Healthy(last'.a) =>
              LET list == Listing(last'.a, vol[last'.a].files, dh[last'.h].nat.path)
                  pos == dh[last'.h].nat.pos
                  first == IF list = <<>> THEN ""
                           ELSE InfoOf(vol[last'.a].files, list[1]).name
              IN  /\ last'.ret = "OK"
                  /\ last'.out.name =
                        IF pos < Len(list)
                        THEN InfoOf(vol[last'.a].files, list[pos + 1]).name
                        ELSE ""
                  /\ (/\ last.op = "rewinddir"
                      /\ last.ret = "OK"
                      /\ last.a = last'.a
                      /\ last.h = last'.h) => last'.out.name = first]_vars

\* a flash directory was read to its end: after its entries, readdir returned
\* OK with an empty name
C21_Witness ==
    /\ last.op = "readdir"
    /\ last.a \in LfsAdapters
    /\ Healthy(last.a)
    /\ last.ret = "OK"
    /\ last.out.name = ""
    /\ dh[last.h].nat.pos > 2

Destructors == {"~LittleFSImpl", "~FatFSImpl"}

(***************************************************************************)
(* C22: the destructor of an adapter that is mounted calls the backend     *)
(* unmount exactly once and nothing else; the destructor of an adapter     *)
(* that is not mounted calls no backend function; in both cases the        *)
(* adapter is not mounted afterwards.                                      *)
(***************************************************************************)
C22_DestructorUnmountsOnce ==
    [][last'.op \in Destructors =>
         /\ ~mounted_'[last'.a]
         /\ IF mounted_[last'.a]
            THEN /\ Len(last'.calls) = 1
                 /\ IF last'.a \in LfsAdapters
                    THEN last'.calls[1].fn = "lfs_unmount"
                    ELSE last'.calls[1].fn = "f_mount" /\ last'.calls[1].arg = 0
            ELSE last'.calls = <<>>]_vars

\* a mounted flash adapter was destroyed: one backend unmount, and it is no
\* longer mounted
C22_Witness ==
    /\ last.op = "~LittleFSImpl"
    /\ last.preMounted
    /\ Len(last.calls) = 1
    /\ ~mounted_[last.a]

(***************************************************************************)
(* C23: mount of a FAT adapter that is not mounted calls f_mount once,     *)
(* with the forced-mount option, and calls nothing else (no format); when  *)
(* that call fails, mount returns the translation of its code and the      *)
(* adapter stays unmounted; when it succeeds, mount returns OK and the     *)
(* adapter is mounted.                                                     *)
(***************************************************************************)
C23_FatMountIsOneForcedMount ==
    [][(last'.op = "mount" /\ last'.a \in FatAdapters /\ ~mounted_[last'.a]) =>
         /\ Len(last'.calls) = 1
         /\ last'.calls[1].fn = "f_mount"
         /\ last'.calls[1].arg = 1
         /\ IF last'.calls[1].res = FR_OK
            THEN last'.ret = "OK" /\ mounted_'[last'.a]
            ELSE /\ last'.ret = convert_fatfs_error(last'.calls[1].res)
                 /\ last'.ret # "OK"
                 /\ ~mounted_'[last'.a]]_vars

\* a forced mount failed: its error was returned and the adapter is unmounted
C23_Witness ==
    /\ last.op = "mount"
    /\ last.a \in FatAdapters
    /\ Len(last.calls) = 1
    /\ last.calls[1].res = FR_DISK_ERR
    /\ last.ret = "ERROR_IO"
    /\ ~mounted_[last.a]

(***************************************************************************)
(* C24: the constructor of the FAT adapter always completes and leaves the *)
(* adapter unmounted; the drive identifier it stores is the supplied one   *)
(* when that is not null and at most 7 characters long, and "0:" when it   *)
(* is null or 8 or more characters long; with its terminator the stored    *)
(* identifier fits the 8-byte buffer.                                      *)
(***************************************************************************)
C24_DrivePathStoredOrDefault ==
    last.op = "FatFSImpl" =>
        /\ ~mounted_[last.a]
        /\ last.out.data =
              IF last.arg.path # NULL /\ Len(last.arg.data) <= 7
              THEN last.arg.data
              ELSE <<"0", ":">>
        /\ Len(last.out.data) + 1 <= DrivePathSize

\* an identifier of 8 characters was replaced by the default
C24_Witness ==
    /\ last.op = "FatFSImpl"
    /\ last.arg.path # NULL
    /\ Len(last.arg.data) = 8
    /\ last.out.data = <<"0", ":">>
    /\ ~mounted_[last.a]

(***************************************************************************)
(* C25: lifecycle of the handles.  After every step, each file and         *)
(* directory handle has is_open true exactly when its fs_impl is not null; *)
(* a handle becomes open only by an open / opendir on it that returned OK, *)
(* becomes closed only by a close / closedir on it that passed the open +  *)
(* identity check, and no other operation changes its is_open or fs_impl.  *)
(***************************************************************************)
C25_HandleLifecycle ==
    [][\A h \in FileHandles \cup DirHandles :
         LET before == HandleOf(h)
             after == HandleOf(h)'
         IN  /\ before.is_open <=> before.fs_impl # NULL
             /\ after.is_open <=> after.fs_impl # NULL
             /\ (~before.is_open /\ after.is_open) =>
                   last'.op \in OpenOps /\ last'.h = h /\ last'.ret = "OK"
             /\ (before.is_open /\ ~after.is_open) =>
                   last'.op \in CloseOps /\ last'.h = h /\ last'.calls # <<>>
             /\ (before.is_open # after.is_open \/ before.fs_impl # after.fs_impl) =>
                   last'.op \in OpenOps \cup CloseOps]_vars

\* a write went through an open handle and left it open, with the owner it
\* had before
C25_Witness ==
    /\ last.op = "write"
    /\ last.calls # <<>>
    /\ last.pre.is_open
    /\ Now.is_open
    /\ Now.fs_impl = last.a
    /\ Now.fs_impl = last.pre.fs_impl

(***************************************************************************)
(* C26: no file or directory operation on a handle reaches the backend     *)
(* while its adapter is not mounted: read, write, seek, tell, sync,        *)
(* truncate, close, readdir, rewinddir and closedir called on an unmounted *)
(* adapter make no backend call.                                           *)
(* Violated: the operations test the handle only, and unmount leaves the   *)
(* handles of its adapter open.                                            *)
(***************************************************************************)
C26_NoBackendCallWhileUnmounted ==
    (last.op \in HandleOps /\ ~last.preMounted) => last.calls = <<>>

NeedMount == {"open", "opendir", "remove", "rename", "stat", "mkdir", "rmdir",
              "get_free_space", "get_total_space"}

(***************************************************************************)
(* C27: on an adapter that is not mounted, open, opendir, remove, rename,  *)
(* stat, mkdir, rmdir, get_free_space and get_total_space return           *)
(* ERROR_NOT_MOUNTED, call no backend function, write none of their output *)
(* arguments and change neither the handles nor the medium.                *)
(***************************************************************************)
C27_UnmountedAdapterRefuses ==
    [][(last'.op \in NeedMount /\ ~mounted_[last'.a]) =>
         /\ last'.ret = "ERROR_NOT_MOUNTED"
         /\ last'.calls = <<>>
         /\ last'.out = NoOut
         /\ UNCHANGED <<mounted_, vol, fh, dh>>]_vars

\* a rename through an unmounted FAT adapter was refused before any backend
\* call
C27_Witness ==
    /\ last.op = "rename"
    /\ last.a \in FatAdapters
    /\ ~last.preMounted
    /\ last.ret = "ERROR_NOT_MOUNTED"
    /\ last.calls = <<>>

(***************************************************************************)
(* C28: is_mounted() of an adapter is true exactly when its most recent    *)
(* mount or unmount call was a mount that returned OK.  Step by step: a    *)
(* mount leaves the adapter mounted exactly when it returns OK; an unmount *)
(* leaves it unmounted, also when the backend unmount fails and its error  *)
(* is returned; no call changes whether another adapter is mounted, and no *)
(* other operation changes whether any adapter is mounted.                 *)
(***************************************************************************)
C28_MountedFollowsLastMountCall ==
    [][/\ last'.op = "mount" => (mounted_'[last'.a] <=> last'.ret = "OK")
       /\ last'.op = "unmount" => ~mounted_'[last'.a]
       /\ \A a \in Adapters :
             (last'.op \notin {"mount", "unmount"} \/ a # last'.a) =>
                 mounted_'[a] = mounted_[a]]_vars

\* the backend unmount failed: unmount returned its error and the adapter is
\* unmounted
C28_Witness ==
    /\ last.op = "unmount"
    /\ last.preMounted
    /\ last.ret # "OK"
    /\ Len(last.calls) = 1
    /\ ~mounted_[last.a]

(***************************************************************************)
(* C29: in every reachable state a flash adapter that is mounted has a     *)
(* configuration pointer that is not null, and a get_free_space or         *)
(* get_total_space that reads through the pointer does so on an adapter    *)
(* whose pointer is not null.                                              *)
(***************************************************************************)
C29_MountedHasConfig ==
    /\ \A a \in LfsAdapters : mounted_[a] => config_(a) # NULL
    /\ (/\ last.op \in {"get_free_space", "get_total_space"}
        /\ last.a \in LfsAdapters
        /\ CallsTo("deref config_") > 0) => config_(last.a) # NULL

\* a mounted flash adapter answered get_total_space from its configuration,
\* while the adapter built with a null pointer is not mounted
C29_Witness ==
    /\ last.op = "get_total_space"
    /\ last.a \in LfsAdapters
    /\ mounted_[last.a]
    /\ CallsTo("deref config_") = 1
    /\ \E a \in LfsAdapters : config_(a) = NULL /\ ~mounted_[a]

\* what C30 asks of the count a read or write reports
CountReported ==
    /\ last.out.n # NoOut.n
    /\ 0 <= last.out.n
    /\ last.out.n <= last.arg.n
    /\ (last.a \in LfsAdapters /\ last.ret # "OK") => last.out.n = 0
    /\ (last.calls # <<>> /\ ~Failed(last.a, last.calls[1])) => last.ret = "OK"

(***************************************************************************)
(* C30: on every return path of read and write of both adapters (OK, a     *)
(* backend error, ERROR_BAD_FILE) the count output has been set by the     *)
(* call to a value that is at most the requested size; it is 0 when the    *)
(* flash backend reports an error; and a transfer the backend completed,   *)
(* short or not, returns OK.                                               *)
(* Violated: the ERROR_BAD_FILE return is taken before the count is        *)
(* written.                                                                *)
(***************************************************************************)
C30_CountOnEveryReturnPath ==
    last.op \in {"read", "write"} => CountReported

\* the same on the paths that reach the backend: this much holds
C30_CountWhenBackendReached ==
    (last.op \in {"read", "write"} /\ last.calls # <<>>) => CountReported

=============================================================================
